---- MODULE Spec2Model ----
(***************************************************************************)
(* ctrlmarket: the data-access layer (database/queries.py) over the SQLite *)
(* store and the WorkspaceScreen handlers that drive it, one session per   *)
(* client process.                                                         *)
(*                                                                         *)
(* Transactions.  get_db_connection opens a connection per call, commits   *)
(* on normal exit and rolls back on an exception.  Python's sqlite3 opens  *)
(* the transaction only before the first INSERT/UPDATE/DELETE, and SQLite  *)
(* admits one writer at a time while readers see committed data only, so   *)
(* the part of a call from its first write to its commit (or rollback) is  *)
(* one atomic step here.  SELECTs that run before the first write are      *)
(* steps of their own: other sessions may write between them.              *)
(***************************************************************************)
EXTENDS Integers, Sequences, FiniteSets, TLC

\* ---------------------------------------------------------------- bounds
MaxRequests == 2
MaxOrders == 2
MaxPrice == 1
MaxQuantity == 2
NumSessions == 2

\* ------------------------------------------------------------- constants
\* SQL NULL / Python None for an id column or an id-valued attribute.
NULL == 0
\* An id that matches no row (the tests' 99999).
NoSuchId == 99999

VARIABLES
    User,                \* table User:           user_id    -> row
    Product,             \* table Product:        product_id -> row
    Order,               \* table "Order":        order_id   -> row
    OrderItem,           \* table OrderItem:      order_item_id -> row
    ServiceRequest,      \* table ServiceRequest: request_id -> row
    current_user,        \* session -> user_id of app.current_user, or NULL
    selected_order_id,   \* session -> WorkspaceScreen.selected_order_id
    selected_request_id, \* session -> WorkspaceScreen.selected_request_id
    screen_stack,        \* session -> app.screen_stack, names of screens, active one last
    pc,                  \* session -> position inside the running call/handler
    frame,               \* session -> local variables of the running call/handler
    ret                  \* session -> outcome of the session's last data-access call

tables == <<User, Product, Order, OrderItem, ServiceRequest>>
screen == <<current_user, selected_order_id, selected_request_id, screen_stack>>
vars == <<User, Product, Order, OrderItem, ServiceRequest, current_user,
          selected_order_id, selected_request_id, screen_stack, pc, frame, ret>>

Sessions == 1..NumSessions

Roles == {"Customer", "Specialist", "Admin"}
OrderStatuses == {"Pending", "Completed", "Cancelled"}
RequestStatuses == {"Pending", "In Progress", "Completed", "Cancelled"}
ServiceTypes == {"Installation", "Support"}

\* ------------------------------------------------------------- helpers
Max(S) == CHOOSE x \in S : \A y \in S : y <= x

\* cursor.lastrowid of an INSERT into a table keyed by an integer rowid.
lastrowid(table) == IF DOMAIN table = {} THEN 1 ELSE Max(DOMAIN table) + 1

\* table with the row `row` inserted under key `id`.
Insert(table, id, row) == [k \in DOMAIN table \cup {id} |-> IF k = id THEN row ELSE table[k]]

\* table without the rows whose key is not in `ids`.
Restrict(table, ids) == [k \in DOMAIN table \cap ids |-> table[k]]
EmptyTable == <<>>

\* The outcome of a data-access call: kind is "value" (an entity is returned,
\* in val), "None", "True", "False" or "raise" (val names the exception).
Outcome(op, kind, val) == [op |-> op, kind |-> kind, val |-> val]
Nothing == [none |-> TRUE]
NoOutcome == Outcome("", "", Nothing)
EmptyFrame == [none |-> TRUE]

get_db_connection_mutant(raised, before, after) == after

\* get_db_connection: commit the writes of the with-block, or roll them back
\* when the block raised.
get_db_connection(raised, before, after) == IF raised THEN before ELSE after

\* ------------------------------------------------------ schema constraints
\* FOREIGN KEY ... REFERENCES User(user_id)
FK_User(user_id) == user_id \in DOMAIN User

\* ServiceRequest: FKs customer_id, specialist_id (nullable) and
\* CHECK (customer_id != specialist_id), CHECKs on the enumerated columns.
ServiceRequestRowOK(row) ==
    /\ row.service_type \in ServiceTypes
    /\ row.status \in RequestStatuses
    /\ FK_User(row.customer_id)
    /\ row.specialist_id # NULL => FK_User(row.specialist_id)
    /\ row.customer_id # row.specialist_id

\* ------------------------------------------------------ service requests
\* What get_service_request_by_id returns for a stored row.
RequestView(request_id, row) ==
    [request_id |-> request_id, service_type |-> row.service_type,
     status |-> row.status, customer_id |-> row.customer_id,
     specialist_id |-> row.specialist_id]

get_service_request_by_id(request_id) ==
    IF request_id \in DOMAIN ServiceRequest
    THEN RequestView(request_id, ServiceRequest[request_id])
    ELSE Nothing

\* The ServiceRequest table create_service_request leaves behind, and what it
\* returns (the INSERT raises sqlite3.IntegrityError when the schema rejects it).
create_service_request_row(service_type, customer_id) ==
    [service_type |-> service_type, status |-> "Pending",
     customer_id |-> customer_id, specialist_id |-> NULL]

create_service_request_db(service_type, customer_id) ==
    LET row == create_service_request_row(service_type, customer_id)
    IN  get_db_connection(~ServiceRequestRowOK(row), ServiceRequest,
                          Insert(ServiceRequest, lastrowid(ServiceRequest), row))

create_service_request_returns(service_type, customer_id) ==
    LET row == create_service_request_row(service_type, customer_id)
    IN  IF ~ServiceRequestRowOK(row)
        THEN Outcome("create_service_request", "raise", [exc |-> "IntegrityError"])
        ELSE Outcome("create_service_request", "value",
                     RequestView(lastrowid(ServiceRequest), row))

create_service_request(s, service_type, customer_id) ==
    /\ ServiceRequest' = create_service_request_db(service_type, customer_id)
    /\ ret' = [ret EXCEPT ![s] = create_service_request_returns(service_type, customer_id)]

\* UPDATE ServiceRequest SET status = ? WHERE request_id = ?
update_service_request_status_db(request_id, status) ==
    [r \in DOMAIN ServiceRequest |->
        IF r = request_id
        THEN [ServiceRequest[r] EXCEPT !.status = status]
        ELSE ServiceRequest[r]]

\* None when cursor.rowcount == 0, else the row read back.
update_service_request_status_returns(request_id, status) ==
    IF request_id \notin DOMAIN ServiceRequest
    THEN Outcome("update_service_request_status", "None", Nothing)
    ELSE Outcome("update_service_request_status", "value",
                 RequestView(request_id,
                             update_service_request_status_db(request_id, status)[request_id]))

update_service_request_status(s, request_id, status) ==
    /\ ServiceRequest' = update_service_request_status_db(request_id, status)
    /\ ret' = [ret EXCEPT ![s] = update_service_request_status_returns(request_id, status)]

assign_specialist_where_mutant(request_id) ==
    request_id \in DOMAIN ServiceRequest

\* WHERE request_id = ? AND specialist_id IS NULL
assign_specialist_where(request_id) ==
    /\ request_id \in DOMAIN ServiceRequest
    /\ ServiceRequest[request_id].specialist_id = NULL

\* UPDATE ServiceRequest SET specialist_id = ?, status = 'In Progress' WHERE ...
assign_specialist_sql(request_id, specialist_id) ==
    [r \in DOMAIN ServiceRequest |->
        IF r = request_id /\ assign_specialist_where(request_id)
        THEN [ServiceRequest[r] EXCEPT !.specialist_id = specialist_id,
                                       !.status = "In Progress"]
        ELSE ServiceRequest[r]]

\* The UPDATE raises sqlite3.IntegrityError when the row it writes breaks the schema.
assign_specialist_raises(request_id, specialist_id) ==
    /\ assign_specialist_where(request_id)
    /\ ~ServiceRequestRowOK(assign_specialist_sql(request_id, specialist_id)[request_id])

assign_specialist_db(request_id, specialist_id) ==
    get_db_connection(assign_specialist_raises(request_id, specialist_id),
                      ServiceRequest, assign_specialist_sql(request_id, specialist_id))

\* None when cursor.rowcount == 0, else the row read back.
assign_specialist_returns(request_id, specialist_id) ==
    IF assign_specialist_raises(request_id, specialist_id)
    THEN Outcome("assign_specialist", "raise", [exc |-> "IntegrityError"])
    ELSE IF ~assign_specialist_where(request_id)
    THEN Outcome("assign_specialist", "None", Nothing)
    ELSE Outcome("assign_specialist", "value",
                 RequestView(request_id,
                             assign_specialist_sql(request_id, specialist_id)[request_id]))

assign_specialist(s, request_id, specialist_id) ==
    /\ ServiceRequest' = assign_specialist_db(request_id, specialist_id)
    /\ ret' = [ret EXCEPT ![s] = assign_specialist_returns(request_id, specialist_id)]

\* --------------------------------------------------------------- products
\* FOREIGN KEY ... REFERENCES Product(product_id)
FK_Product(product_id) == product_id \in DOMAIN Product

\* Product: CHECK (price >= 0)
ProductRowOK(row) == row.price >= 0

\* OrderItem.product_id REFERENCES Product ON DELETE RESTRICT
ProductReferenced(product_id) ==
    \E i \in DOMAIN OrderItem : OrderItem[i].product_id = product_id

ProductView(product_id, row) ==
    [product_id |-> product_id, name |-> row.name, category |-> row.category,
     price |-> row.price]

get_product_by_id(product_id) ==
    IF product_id \in DOMAIN Product
    THEN ProductView(product_id, Product[product_id])
    ELSE Nothing

\* The SET list of update_product: the fields of the payload that are not None
\* (a payload is the record of its supplied fields).
update_product_fields(product) == DOMAIN product \cap {"name", "category", "price"}

\* UPDATE Product SET <fields> WHERE product_id = ?
update_product_sql(product_id, product) ==
    [p \in DOMAIN Product |->
        IF p = product_id
        THEN [f \in DOMAIN Product[p] |->
                 IF f \in update_product_fields(product) THEN product[f] ELSE Product[p][f]]
        ELSE Product[p]]

\* The UPDATE raises sqlite3.IntegrityError when the row it writes breaks the schema.
update_product_raises(product_id, product) ==
    /\ update_product_fields(product) # {}
    /\ product_id \in DOMAIN Product
    /\ ~ProductRowOK(update_product_sql(product_id, product)[product_id])

update_product_db(product_id, product) ==
    IF update_product_fields(product) = {}
    THEN Product
    ELSE get_db_connection(update_product_raises(product_id, product),
                           Product, update_product_sql(product_id, product))

\* `if not fields: return get_product_by_id(...)`; None when rowcount == 0.
update_product_returns(product_id, product) ==
    IF update_product_raises(product_id, product)
    THEN Outcome("update_product", "raise", [exc |-> "IntegrityError"])
    ELSE IF product_id \notin DOMAIN Product
    THEN Outcome("update_product", "None", Nothing)
    ELSE Outcome("update_product", "value",
                 ProductView(product_id, update_product_db(product_id, product)[product_id]))

update_product(s, product_id, product) ==
    /\ Product' = update_product_db(product_id, product)
    /\ ret' = [ret EXCEPT ![s] = update_product_returns(product_id, product)]

\* DELETE FROM Product WHERE product_id = ?, an IntegrityError (ON DELETE
\* RESTRICT) caught and turned into False.
delete_product_restricted(product_id) ==
    product_id \in DOMAIN Product /\ ProductReferenced(product_id)

delete_product_db(product_id) ==
    IF delete_product_restricted(product_id)
    THEN Product
    ELSE Restrict(Product, DOMAIN Product \ {product_id})

delete_product_returns_mutant(product_id) ==
    IF product_id \notin DOMAIN Product
    THEN Outcome("delete_product", "False", Nothing)
    ELSE Outcome("delete_product", "True", Nothing)

delete_product_returns(product_id) ==
    IF delete_product_restricted(product_id) \/ product_id \notin DOMAIN Product
    THEN Outcome("delete_product", "False", Nothing)
    ELSE Outcome("delete_product", "True", Nothing)

delete_product(s, product_id) ==
    /\ Product' = delete_product_db(product_id)
    /\ ret' = [ret EXCEPT ![s] = delete_product_returns(product_id)]

\* ----------------------------------------------------------------- orders
\* "Order": FK user_id, CHECK (total_price >= 0), CHECK on status.
OrderRowOK(row) ==
    /\ FK_User(row.user_id)
    /\ row.total_price >= 0
    /\ row.status \in OrderStatuses

\* OrderItem: FK product_id, CHECK (quantity >= 1), CHECK (unit_price >= 0);
\* its order_id is the order inserted by the same transaction.
OrderItemRowOK(row) ==
    /\ FK_Product(row.product_id)
    /\ row.quantity >= 1
    /\ row.unit_price >= 0

\* The set of integers S as an ascending sequence.
RECURSIVE Ascending(_)
Ascending(S) ==
    IF S = {} THEN <<>>
    ELSE LET m == CHOOSE x \in S : \A y \in S : x <= y
         IN  <<m>> \o Ascending(S \ {m})

\* SELECT oi.* ... FROM OrderItem oi JOIN Product p ... WHERE oi.order_id = ?
OrderItemsOf(items, products, order_id) ==
    LET ids == Ascending({i \in DOMAIN items :
                             /\ items[i].order_id = order_id
                             /\ items[i].product_id \in DOMAIN products})
    IN  [k \in 1..Len(ids) |->
            [order_item_id |-> ids[k], order_id |-> order_id,
             quantity |-> items[ids[k]].quantity,
             unit_price |-> items[ids[k]].unit_price,
             product_id |-> items[ids[k]].product_id]]

\* What get_order_by_id returns for the order order_id of the tables given.
OrderView(orders, items, products, order_id) ==
    [order_id |-> order_id, total_price |-> orders[order_id].total_price,
     status |-> orders[order_id].status, user_id |-> orders[order_id].user_id,
     items |-> OrderItemsOf(items, products, order_id)]

get_order_by_id(order_id) ==
    IF order_id \in DOMAIN Order /\ Order[order_id].user_id \in DOMAIN User
    THEN OrderView(Order, OrderItem, Product, order_id)
    ELSE Nothing

\* create_order, entered: the with-block's locals before the first iteration.
create_order_enter(s, order_data) ==
    /\ pc[s] = "idle"
    /\ pc' = [pc EXCEPT ![s] = "create_order_loop"]
    /\ frame' = [frame EXCEPT ![s] = [order_data |-> order_data, total_price |-> 0,
                                      order_items_data |-> <<>>]]
    /\ UNCHANGED <<tables, screen, ret>>

\* unit_price = product.price
create_order_unit_price(product, item) == product.price

create_order_subtotal_mutant(unit_price, item) == unit_price

\* unit_price * item.quantity
create_order_subtotal(unit_price, item) == unit_price * item.quantity

\* One iteration of `for item in order_data.items`: look the product up (a
\* SELECT outside any transaction), raise ValueError when it is missing.
create_order_loop(s) ==
    /\ pc[s] = "create_order_loop"
    /\ Len(frame[s].order_items_data) < Len(frame[s].order_data.items)
    /\ LET item == frame[s].order_data.items[Len(frame[s].order_items_data) + 1]
           product == get_product_by_id(item.product_id)
       IN  IF product = Nothing
           THEN /\ ret' = [ret EXCEPT ![s] =
                             Outcome("create_order", "raise",
                                     [exc |-> "ValueError", product_id |-> item.product_id])]
                /\ pc' = [pc EXCEPT ![s] = "idle"]
                /\ frame' = [frame EXCEPT ![s] = EmptyFrame]
           ELSE LET unit_price == create_order_unit_price(product, item)
                IN  /\ frame' = [frame EXCEPT ![s] =
                          [@ EXCEPT !.total_price = @ + create_order_subtotal(unit_price, item),
                                    !.order_items_data =
                                        Append(@, [product_id |-> item.product_id,
                                                   quantity |-> item.quantity,
                                                   unit_price |-> unit_price])]]
                    /\ UNCHANGED <<pc, ret>>
    /\ UNCHANGED <<tables, screen>>

\* The OrderItem table after the INSERTs of order_items_data for order_id.
create_order_items(order_id, order_items_data) ==
    LET first == lastrowid(OrderItem)
        n == Len(order_items_data)
    IN  [i \in DOMAIN OrderItem \cup (first..(first + n - 1)) |->
            IF i \in DOMAIN OrderItem THEN OrderItem[i]
            ELSE [order_id |-> order_id,
                  product_id |-> order_items_data[i - first + 1].product_id,
                  quantity |-> order_items_data[i - first + 1].quantity,
                  unit_price |-> order_items_data[i - first + 1].unit_price]]

\* After the loop: INSERT the order, INSERT its items, read the order back and
\* commit; an IntegrityError of any INSERT rolls the whole transaction back.
create_order_commit(s) ==
    /\ pc[s] = "create_order_loop"
    /\ Len(frame[s].order_items_data) = Len(frame[s].order_data.items)
    /\ LET order_id == lastrowid(Order)
           row == [total_price |-> frame[s].total_price, status |-> "Pending",
                   user_id |-> frame[s].order_data.user_id]
           orders == Insert(Order, order_id, row)
           items == create_order_items(order_id, frame[s].order_items_data)
           raised == \/ ~OrderRowOK(row)
                     \/ \E i \in DOMAIN items \ DOMAIN OrderItem : ~OrderItemRowOK(items[i])
       IN  /\ Order' = get_db_connection(raised, Order, orders)
           /\ OrderItem' = get_db_connection(raised, OrderItem, items)
           /\ ret' = [ret EXCEPT ![s] =
                        IF raised
                        THEN Outcome("create_order", "raise", [exc |-> "IntegrityError"])
                        ELSE Outcome("create_order", "value",
                                     OrderView(orders, items, Product, order_id))]
    /\ pc' = [pc EXCEPT ![s] = "idle"]
    /\ frame' = [frame EXCEPT ![s] = EmptyFrame]
    /\ UNCHANGED <<User, Product, ServiceRequest>>

\* create_order returning to a caller that leaves the screens as they are.
create_order_insert(s) ==
    /\ create_order_commit(s)
    /\ UNCHANGED screen

\* UPDATE "Order" SET status = ? WHERE order_id = ?
update_order_status_db(order_id, status) ==
    [o \in DOMAIN Order |->
        IF o = order_id THEN [Order[o] EXCEPT !.status = status] ELSE Order[o]]

\* None when cursor.rowcount == 0, else the order read back.
update_order_status_returns(order_id, status) ==
    IF order_id \notin DOMAIN Order
    THEN Outcome("update_order_status", "None", Nothing)
    ELSE Outcome("update_order_status", "value",
                 OrderView(update_order_status_db(order_id, status),
                           OrderItem, Product, order_id))

update_order_status(s, order_id, status) ==
    /\ Order' = update_order_status_db(order_id, status)
    /\ ret' = [ret EXCEPT ![s] = update_order_status_returns(order_id, status)]

cancel_order_where_mutant(order_id) == order_id \in DOMAIN Order

\* WHERE order_id = ? AND status = 'Pending'
cancel_order_where(order_id) ==
    /\ order_id \in DOMAIN Order
    /\ Order[order_id].status = "Pending"

\* UPDATE "Order" SET status = 'Cancelled' WHERE ...
cancel_order_db(order_id) ==
    [o \in DOMAIN Order |->
        IF o = order_id /\ cancel_order_where(order_id)
        THEN [Order[o] EXCEPT !.status = "Cancelled"]
        ELSE Order[o]]

\* return cursor.rowcount > 0
cancel_order_returns(order_id) ==
    IF cancel_order_where(order_id)
    THEN Outcome("cancel_order", "True", Nothing)
    ELSE Outcome("cancel_order", "False", Nothing)

cancel_order(s, order_id) ==
    /\ Order' = cancel_order_db(order_id)
    /\ ret' = [ret EXCEPT ![s] = cancel_order_returns(order_id)]

\* -------------------------------------------------------- WorkspaceScreen
list_orders_mutant(user_id) == {o \in DOMAIN Order : Order[o].user_id \in DOMAIN User}

\* list_orders(user_id=..., status=None, search=None), as the ids of its rows:
\* the JOIN drops orders without owner, `if user_id:` adds the owner filter.
list_orders(user_id) ==
    {o \in DOMAIN Order :
        /\ Order[o].user_id \in DOMAIN User
        /\ user_id # NULL => Order[o].user_id = user_id}

\* list_service_requests(status=None, customer_id=..., search=None).
list_service_requests(customer_id) ==
    {r \in DOMAIN ServiceRequest :
        /\ ServiceRequest[r].customer_id \in DOMAIN User
        /\ customer_id # NULL => ServiceRequest[r].customer_id = customer_id}

list_service_requests_for_specialist_mutant(specialist_id) ==
    {r \in DOMAIN ServiceRequest :
        /\ ServiceRequest[r].customer_id \in DOMAIN User
        /\ \/ ServiceRequest[r].specialist_id = NULL
           \/ ServiceRequest[r].specialist_id # specialist_id}

\* WHERE sr.specialist_id IS NULL OR sr.specialist_id = ?
list_service_requests_for_specialist(specialist_id) ==
    {r \in DOMAIN ServiceRequest :
        /\ ServiceRequest[r].customer_id \in DOMAIN User
        /\ \/ ServiceRequest[r].specialist_id = NULL
           \/ ServiceRequest[r].specialist_id = specialist_id}

\* The role of the user logged in to session s.
current_user_role(s) == User[current_user[s]].role

\* The rows _load_orders puts into the orders table of session s: a customer
\* sees their own orders, everybody else all of them.
_load_orders(s) ==
    IF current_user[s] = NULL THEN {}
    ELSE IF current_user_role(s) = "Customer" THEN list_orders(current_user[s])
    ELSE list_orders(NULL)

\* The rows _load_requests puts into the services table of session s.
_load_requests(s) ==
    IF current_user[s] = NULL THEN {}
    ELSE IF current_user_role(s) = "Customer" THEN list_service_requests(current_user[s])
    ELSE IF current_user_role(s) = "Specialist"
    THEN list_service_requests_for_specialist(current_user[s])
    ELSE list_service_requests(NULL)

\* The cursor of the orders table lands on a row.  (A table shows what its last
\* load returned; the row highlighted right after a load and kept since is the
\* general case, selected_order_id being all that remains of the table.)
on_orders_row_highlighted(s) ==
    /\ pc[s] = "idle"
    /\ \E order_id \in _load_orders(s) :
          selected_order_id' = [selected_order_id EXCEPT ![s] = order_id]
    /\ UNCHANGED <<tables, current_user, selected_request_id,
                 screen_stack, pc, frame, ret>>

on_services_row_highlighted(s) ==
    /\ pc[s] = "idle"
    /\ \E request_id \in _load_requests(s) :
          selected_request_id' = [selected_request_id EXCEPT ![s] = request_id]
    /\ UNCHANGED <<tables, current_user, selected_order_id,
                 screen_stack, pc, frame, ret>>

\* _handle_order_cancel lets the session go on to cancel_order.
_handle_order_cancel_allowed(role, user_id, order) ==
    /\ order # Nothing
    /\ \/ /\ role = "Customer"
          /\ order.user_id = user_id
          /\ order.status = "Pending"
       \/ /\ role \in {"Specialist", "Admin"}
          /\ order.status = "Pending"

\* action_cancel_item on the orders tab, up to the checks of
\* _handle_order_cancel on the order it has read.
_handle_order_cancel(s) ==
    /\ pc[s] = "idle"
    /\ current_user[s] # NULL
    /\ selected_order_id[s] # NULL
    /\ LET order_id == selected_order_id[s]
           order == get_order_by_id(order_id)
       IN  IF _handle_order_cancel_allowed(current_user_role(s), current_user[s], order)
           THEN /\ pc' = [pc EXCEPT ![s] = "_handle_order_cancel"]
                /\ frame' = [frame EXCEPT ![s] = [order_id |-> order_id, order |-> order]]
           ELSE UNCHANGED <<pc, frame>>
    /\ UNCHANGED <<tables, screen, ret>>

\* `if cancel_order(order_id): self._load_orders(); self.selected_order_id = None`
_handle_order_cancel_cancel_order(s) ==
    /\ pc[s] = "_handle_order_cancel"
    /\ cancel_order(s, frame[s].order_id)
    /\ selected_order_id' = [selected_order_id EXCEPT ![s] =
          IF cancel_order_returns(frame[s].order_id).kind = "True" THEN NULL ELSE @]
    /\ pc' = [pc EXCEPT ![s] = "idle"]
    /\ frame' = [frame EXCEPT ![s] = EmptyFrame]
    /\ UNCHANGED <<User, Product, OrderItem, ServiceRequest, current_user, selected_request_id,
                 screen_stack>>

_handle_order_complete_allowed_mutant(role, order) ==
    /\ order # Nothing
    /\ order.status = "Pending"

\* _handle_order_complete lets the session go on to update_order_status.
_handle_order_complete_allowed(role, order) ==
    /\ order # Nothing
    /\ role \in {"Specialist", "Admin"}
    /\ order.status = "Pending"

\* action_complete_item on the orders tab, up to the checks of
\* _handle_order_complete on the order it has read.
_handle_order_complete(s) ==
    /\ pc[s] = "idle"
    /\ current_user[s] # NULL
    /\ selected_order_id[s] # NULL
    /\ LET order_id == selected_order_id[s]
           order == get_order_by_id(order_id)
       IN  IF _handle_order_complete_allowed(current_user_role(s), order)
           THEN /\ pc' = [pc EXCEPT ![s] = "_handle_order_complete"]
                /\ frame' = [frame EXCEPT ![s] = [order_id |-> order_id, order |-> order]]
           ELSE UNCHANGED <<pc, frame>>
    /\ UNCHANGED <<tables, screen, ret>>

\* `if update_order_status(order_id, OrderUpdateStatus(status="Completed")): ...`
_handle_order_complete_update_order_status(s) ==
    /\ pc[s] = "_handle_order_complete"
    /\ update_order_status(s, frame[s].order_id, "Completed")
    /\ selected_order_id' = [selected_order_id EXCEPT ![s] =
          IF update_order_status_returns(frame[s].order_id, "Completed").kind = "value"
          THEN NULL ELSE @]
    /\ pc' = [pc EXCEPT ![s] = "idle"]
    /\ frame' = [frame EXCEPT ![s] = EmptyFrame]
    /\ UNCHANGED <<User, Product, OrderItem, ServiceRequest, current_user, selected_request_id,
                 screen_stack>>

_handle_service_permitted_mutant(role) == role \in Roles

\* `if current_user.role not in ("Specialist", "Admin"): ... return`
_handle_service_permitted(role) == role \in {"Specialist", "Admin"}

\* _handle_service_cancel and _handle_service_complete let the session go on to
\* update_service_request_status.
_handle_service_allowed(role, request) ==
    /\ _handle_service_permitted(role)
    /\ request # Nothing
    /\ request.status \in {"Pending", "In Progress"}

\* action_cancel_item on the services tab, up to the checks of
\* _handle_service_cancel on the request it has read.
_handle_service_cancel(s) ==
    /\ pc[s] = "idle"
    /\ current_user[s] # NULL
    /\ selected_request_id[s] # NULL
    /\ LET request_id == selected_request_id[s]
           request == get_service_request_by_id(request_id)
       IN  IF _handle_service_allowed(current_user_role(s), request)
           THEN /\ pc' = [pc EXCEPT ![s] = "_handle_service_cancel"]
                /\ frame' = [frame EXCEPT ![s] =
                                [request_id |-> request_id, request |-> request]]
           ELSE UNCHANGED <<pc, frame>>
    /\ UNCHANGED <<tables, screen, ret>>

\* update_service_request_status(request_id, "Cancelled"), then _load_requests
\* and `self.selected_request_id = None`.
_handle_service_cancel_update_service_request_status(s) ==
    /\ pc[s] = "_handle_service_cancel"
    /\ update_service_request_status(s, frame[s].request_id, "Cancelled")
    /\ selected_request_id' = [selected_request_id EXCEPT ![s] = NULL]
    /\ pc' = [pc EXCEPT ![s] = "idle"]
    /\ frame' = [frame EXCEPT ![s] = EmptyFrame]
    /\ UNCHANGED <<User, Product, Order, OrderItem, current_user, selected_order_id,
                 screen_stack>>

\* action_complete_item on the services tab, up to the checks of
\* _handle_service_complete on the request it has read.
_handle_service_complete(s) ==
    /\ pc[s] = "idle"
    /\ current_user[s] # NULL
    /\ selected_request_id[s] # NULL
    /\ LET request_id == selected_request_id[s]
           request == get_service_request_by_id(request_id)
       IN  IF _handle_service_allowed(current_user_role(s), request)
           THEN /\ pc' = [pc EXCEPT ![s] = "_handle_service_complete"]
                /\ frame' = [frame EXCEPT ![s] =
                                [request_id |-> request_id, request |-> request]]
           ELSE UNCHANGED <<pc, frame>>
    /\ UNCHANGED <<tables, screen, ret>>

\* update_service_request_status(request_id, "Completed"), then _load_requests
\* and `self.selected_request_id = None`.
_handle_service_complete_update_service_request_status(s) ==
    /\ pc[s] = "_handle_service_complete"
    /\ update_service_request_status(s, frame[s].request_id, "Completed")
    /\ selected_request_id' = [selected_request_id EXCEPT ![s] = NULL]
    /\ pc' = [pc EXCEPT ![s] = "idle"]
    /\ frame' = [frame EXCEPT ![s] = EmptyFrame]
    /\ UNCHANGED <<User, Product, Order, OrderItem, current_user, selected_order_id,
                 screen_stack>>

\* action_assign_request: a specialist takes the selected request.
action_assign_request(s) ==
    /\ pc[s] = "idle"
    /\ current_user[s] # NULL
    /\ current_user_role(s) = "Specialist"
    /\ selected_request_id[s] # NULL
    /\ assign_specialist(s, selected_request_id[s], current_user[s])
    /\ UNCHANGED <<User, Product, Order, OrderItem, screen, pc, frame>>

\* ------------------------------------------------------------ seed data
\* The users of the seed data set: an administrator, specialists, customers.
SeedRoles == <<"Admin", "Specialist", "Specialist", "Customer", "Customer">>
SeedUser == [u \in 1..Len(SeedRoles) |-> [role |-> SeedRoles[u]]]

\* app.screen_stack once CtrlMarketApp.on_mount has pushed the login screen
\* over the framework's default screen, and with the workspace open.
StartStack == <<"_default", "login">>
WorkspaceStack == <<"_default", "login", "dashboard", "workspace">>

\* Every session idle, nobody logged in, nothing selected.
InitSessions ==
    /\ current_user = [s \in Sessions |-> NULL]
    /\ selected_order_id = [s \in Sessions |-> NULL]
    /\ selected_request_id = [s \in Sessions |-> NULL]
    /\ screen_stack = [s \in Sessions |-> StartStack]
    /\ pc = [s \in Sessions |-> "idle"]
    /\ frame = [s \in Sessions |-> EmptyFrame]
    /\ ret = [s \in Sessions |-> NoOutcome]

\* ============================================================ SpecService
\* A client process calling the service-request functions of the data-access
\* layer directly, in any order and with any arguments (each call is one
\* transaction, so calls of several clients interleave as calls of one).
Client == CHOOSE s \in Sessions : \A other \in Sessions : s <= other
list_customers == {u \in DOMAIN User : User[u].role = "Customer"}
CustomerIdInputs == list_customers \cup {NoSuchId}
UserIdInputs == DOMAIN User \cup {NoSuchId}
RequestIdInputs == DOMAIN ServiceRequest \cup {NoSuchId}
\* One service type is enough: no function looks at it after storing it.
ServiceTypeInputs == {"Support"}

InitService ==
    /\ User = Restrict(SeedUser, {2, 3, 4})
    /\ Product = EmptyTable
    /\ Order = EmptyTable
    /\ OrderItem = EmptyTable
    /\ ServiceRequest = EmptyTable
    /\ InitSessions

Call_create_service_request(s) ==
    \E service_type \in ServiceTypeInputs, customer_id \in CustomerIdInputs :
        /\ pc[s] = "idle"
        /\ Cardinality(DOMAIN ServiceRequest) < MaxRequests
        /\ create_service_request(s, service_type, customer_id)
        /\ UNCHANGED <<User, Product, Order, OrderItem, screen, pc, frame>>

Call_update_service_request_status(s) ==
    \E request_id \in RequestIdInputs, status \in RequestStatuses :
        /\ pc[s] = "idle"
        /\ update_service_request_status(s, request_id, status)
        /\ UNCHANGED <<User, Product, Order, OrderItem, screen, pc, frame>>

Call_assign_specialist(s) ==
    \E request_id \in RequestIdInputs, specialist_id \in UserIdInputs :
        /\ pc[s] = "idle"
        /\ assign_specialist(s, request_id, specialist_id)
        /\ UNCHANGED <<User, Product, Order, OrderItem, screen, pc, frame>>

NextService ==
    \/ Call_create_service_request(Client)
    \/ Call_update_service_request_status(Client)
    \/ Call_assign_specialist(Client)

SpecService == InitService /\ [][NextService]_vars

\* C2 as stated: for every existing request and every specialist id (here even
\* only the ids of existing users), assign_specialist returns the request if
\* and only if the request's specialist_id is null.
C2_AssignSucceedsIffNullForEveryId ==
    [][\A r \in DOMAIN ServiceRequest, sp \in DOMAIN User :
          (ret'[Client].op = "assign_specialist" /\ assign_specialist(Client, r, sp)) =>
              ((ret'[Client].kind = "value") <=> (ServiceRequest[r].specialist_id = NULL))]_vars

\* C2 (amended): for every existing request and every specialist id that names
\* an existing user other than the request's customer, assign_specialist
\* returns the request iff specialist_id is null; after a success the stored
\* status is 'In Progress' and specialist_id is the given specialist; on an
\* already-assigned request it returns None and changes nothing, whatever the
\* id; an id the schema rejects raises and changes nothing.
C2_AssignSucceedsIffNull ==
    [][\A r \in DOMAIN ServiceRequest, sp \in UserIdInputs :
          (ret'[Client].op = "assign_specialist" /\ assign_specialist(Client, r, sp)) =>
              LET row == ServiceRequest[r]
                  eligible == sp \in DOMAIN User /\ sp # row.customer_id
                  out == ret'[Client]
              IN  /\ eligible => ((out.kind = "value") <=> (row.specialist_id = NULL))
                  /\ out.kind = "value" =>
                        /\ ServiceRequest'[r].status = "In Progress"
                        /\ ServiceRequest'[r].specialist_id = sp
                        /\ out.val = RequestView(r, ServiceRequest'[r])
                        /\ \A q \in DOMAIN ServiceRequest \ {r} :
                              ServiceRequest'[q] = ServiceRequest[q]
                  /\ row.specialist_id # NULL =>
                        out.kind = "None" /\ ServiceRequest' = ServiceRequest
                  /\ (~eligible /\ row.specialist_id = NULL) =>
                        out.kind = "raise" /\ ServiceRequest' = ServiceRequest]_vars

\* A successful assignment has happened and is stored.
C2_Witness ==
    /\ ret[Client].op = "assign_specialist"
    /\ ret[Client].kind = "value"
    /\ ret[Client].val.request_id \in DOMAIN ServiceRequest
    /\ ServiceRequest[ret[Client].val.request_id].status = "In Progress"
    /\ ServiceRequest[ret[Client].val.request_id].specialist_id = ret[Client].val.specialist_id

\* C7: a request is created with specialist_id null and status 'Pending', and
\* a specialist_id that is set is never changed or cleared by any later
\* assign_specialist or update_service_request_status call.
C7_SpecialistSetOnce ==
    [][/\ \A r \in DOMAIN ServiceRequest' \ DOMAIN ServiceRequest :
             /\ ServiceRequest'[r].specialist_id = NULL
             /\ ServiceRequest'[r].status = "Pending"
       /\ \A r \in DOMAIN ServiceRequest :
             ServiceRequest[r].specialist_id # NULL =>
                 /\ r \in DOMAIN ServiceRequest'
                 /\ ServiceRequest'[r].specialist_id = ServiceRequest[r].specialist_id]_vars

\* A status update has run on a request that already had its specialist, and
\* another request is still as created.
C7_Witness ==
    /\ ret[Client].op = "update_service_request_status"
    /\ ret[Client].kind = "value"
    /\ ret[Client].val.specialist_id # NULL
    /\ ret[Client].val.status = "Pending"
    /\ \E r \in DOMAIN ServiceRequest :
          ServiceRequest[r].specialist_id = NULL /\ ServiceRequest[r].status = "Pending"

\* ========================================================= SpecAssignRace
\* Scenario C: every client process calls assign_specialist once, all on the
\* same unassigned request, each with a specialist of its own.
RaceRequest == lastrowid(EmptyTable)

\* The users that can be a request's specialist: existing, not its customer.
Eligible(customer_id) == DOMAIN User \ {customer_id}

InitAssignRace ==
    /\ User = SeedUser
    /\ Product = EmptyTable
    /\ Order = EmptyTable
    /\ OrderItem = EmptyTable
    /\ \E service_type \in ServiceTypes, status \in RequestStatuses,
          customer_id \in list_customers :
          ServiceRequest = Insert(EmptyTable, RaceRequest,
                                  [service_type |-> service_type, status |-> status,
                                   customer_id |-> customer_id, specialist_id |-> NULL])
    /\ current_user = [s \in Sessions |-> NULL]
    /\ selected_order_id = [s \in Sessions |-> NULL]
    /\ selected_request_id = [s \in Sessions |-> NULL]
    /\ screen_stack = [s \in Sessions |-> StartStack]
    /\ pc = [s \in Sessions |-> "assign_specialist"]
    /\ \E specialists \in [Sessions -> Eligible(ServiceRequest[RaceRequest].customer_id)] :
          /\ \A s1, s2 \in Sessions : s1 # s2 => specialists[s1] # specialists[s2]
          /\ frame = [s \in Sessions |-> [request_id |-> RaceRequest,
                                          specialist_id |-> specialists[s]]]
    /\ ret = [s \in Sessions |-> NoOutcome]

Race_assign_specialist(s) ==
    /\ pc[s] = "assign_specialist"
    /\ assign_specialist(s, frame[s].request_id, frame[s].specialist_id)
    /\ pc' = [pc EXCEPT ![s] = "done"]
    /\ UNCHANGED <<User, Product, Order, OrderItem, screen, frame>>

NextAssignRace == \E s \in Sessions : Race_assign_specialist(s)

SpecAssignRace == InitAssignRace /\ [][NextAssignRace]_vars

Returned(s) == pc[s] = "done"
Winners == {s \in Sessions : Returned(s) /\ ret[s].kind = "value"}
Losers == {s \in Sessions : Returned(s) /\ ret[s].kind = "None"}

\* C1: in every interleaving of the concurrent calls exactly one returns the
\* assigned request and every other one returns None, and the request ends
\* 'In Progress' with the winner's specialist_id.
C1_ExactlyOneWinner ==
    /\ Cardinality(Winners) <= 1
    /\ Winners \cup Losers = {s \in Sessions : Returned(s)}
    /\ (\E s \in Sessions : Returned(s)) =>
          \E w \in Winners :
              /\ ServiceRequest[RaceRequest].status = "In Progress"
              /\ ServiceRequest[RaceRequest].specialist_id = frame[w].specialist_id
              /\ ret[w].val = RequestView(RaceRequest, ServiceRequest[RaceRequest])

\* Every call has returned: one winner, and a loser that got None.
C1_Witness ==
    /\ \A s \in Sessions : Returned(s)
    /\ Cardinality(Winners) = 1
    /\ Cardinality(Losers) = NumSessions - 1
    /\ Losers # {}

\* ======================================================== SpecCreateOrder
\* A client calling create_order against a store without orders, up to its
\* first order stored, while another client changes prices and deletes
\* products between the steps of create_order.
SeedProductNames == <<"P1", "P2">>
Prices == 0..MaxPrice
Quantities == 1..MaxQuantity
ProductIdInputs == DOMAIN Product \cup {NoSuchId}
OrderIdInputs == DOMAIN Order \cup {NoSuchId}

\* The item lists of an OrderCreate as OrderNewScreen builds them from its
\* cart: OrderItemCreate values (quantity >= 1) of distinct products.
ItemListInputs ==
    UNION {{items \in [1..n -> [product_id : ProductIdInputs, quantity : Quantities]] :
               \A i, j \in 1..n : i # j => items[i].product_id # items[j].product_id} :
           n \in 0..Cardinality(ProductIdInputs)}

\* The ProductUpdate payloads used: nothing supplied, or a price.
ProductUpdateInputs == {<<>>} \cup {[price |-> x] : x \in Prices}

InitCreateOrder ==
    /\ User = Restrict(SeedUser, 1..4)
    /\ \E prices \in [DOMAIN SeedProductNames -> Prices] :
          Product = [p \in DOMAIN SeedProductNames |->
                        [name |-> SeedProductNames[p], category |-> "Equipment",
                         price |-> prices[p]]]
    /\ Order = EmptyTable
    /\ OrderItem = EmptyTable
    /\ ServiceRequest = EmptyTable
    /\ InitSessions

Call_create_order(s) ==
    /\ pc[s] = "idle"
    /\ Order = EmptyTable
    /\ \E user_id \in CustomerIdInputs, items \in ItemListInputs :
          create_order_enter(s, [user_id |-> user_id, items |-> items])

\* The other client's calls; what they return to it is not kept.
Other_update_product ==
    \E product_id \in ProductIdInputs, product \in ProductUpdateInputs :
        /\ Product' = update_product_db(product_id, product)
        /\ UNCHANGED <<User, Order, OrderItem, ServiceRequest, screen, pc, frame, ret>>

Other_delete_product ==
    \E product_id \in ProductIdInputs :
        /\ Product' = delete_product_db(product_id)
        /\ UNCHANGED <<User, Order, OrderItem, ServiceRequest, screen, pc, frame, ret>>

NextCreateOrder ==
    \/ Call_create_order(Client)
    \/ create_order_loop(Client)
    \/ create_order_insert(Client)
    \/ Other_update_product
    \/ Other_delete_product

SpecCreateOrder == InitCreateOrder /\ [][NextCreateOrder]_vars

\* The order_item_ids of the order order_id.
ItemIdsOf(items, order_id) == {i \in DOMAIN items : items[i].order_id = order_id}

RECURSIVE SumOver(_, _)
\* Sum of unit_price * quantity over the order items `ids` of `items`.
SumOver(items, ids) ==
    IF ids = {} THEN 0
    ELSE LET i == CHOOSE x \in ids : TRUE
         IN  items[i].unit_price * items[i].quantity + SumOver(items, ids \ {i})

\* C9: an order created by create_order has status 'Pending', one order item
\* per input item (same product and quantity, in order), unit_price the price
\* the product had when create_order looked it up, and total_price the sum of
\* unit_price * quantity over its items; no later step (update_product price
\* changes included) changes a stored total_price or order item.
C9_TotalIsSumOfSnapshots ==
    [][/\ (create_order_loop(Client) /\ pc'[Client] = "create_order_loop") =>
              LET k == Len(frame'[Client].order_items_data)
              IN  frame'[Client].order_items_data[k].unit_price =
                      Product[frame[Client].order_data.items[k].product_id].price
       /\ \A o \in DOMAIN Order' \ DOMAIN Order :
              LET ids == Ascending(ItemIdsOf(OrderItem', o))
                  input == frame[Client].order_data.items
              IN  /\ Order'[o].status = "Pending"
                  /\ Len(ids) = Len(input)
                  /\ \A k \in 1..Len(ids) :
                        /\ OrderItem'[ids[k]].product_id = input[k].product_id
                        /\ OrderItem'[ids[k]].quantity = input[k].quantity
                        /\ OrderItem'[ids[k]].unit_price =
                               frame[Client].order_items_data[k].unit_price
                  /\ ret'[Client].kind = "value"
                  /\ ret'[Client].val.order_id = o
                  /\ Len(ret'[Client].val.items) = Len(input)
       /\ \A o \in DOMAIN Order' :
              Order'[o].total_price = SumOver(OrderItem', ItemIdsOf(OrderItem', o))
       /\ \A o \in DOMAIN Order :
              o \in DOMAIN Order' /\ Order'[o].total_price = Order[o].total_price
       /\ \A i \in DOMAIN OrderItem :
              i \in DOMAIN OrderItem' /\ OrderItem'[i] = OrderItem[i]]_vars

\* A stored order with two items, one of them of quantity 2 or more, and a
\* product whose price has moved away from the unit_price stored for it.
C9_Witness ==
    \E o \in DOMAIN Order :
        /\ Cardinality(ItemIdsOf(OrderItem, o)) = 2
        /\ Order[o].total_price > 0
        /\ \E i \in ItemIdsOf(OrderItem, o) : OrderItem[i].quantity >= 2
        /\ \E i \in ItemIdsOf(OrderItem, o) :
              /\ OrderItem[i].product_id \in DOMAIN Product
              /\ OrderItem[i].unit_price > 0
              /\ Product[OrderItem[i].product_id].price # OrderItem[i].unit_price

\* A step that ends a create_order call with an exception.
CreateOrderFails ==
    /\ pc[Client] = "create_order_loop"
    /\ pc'[Client] = "idle"
    /\ ret'[Client].kind = "raise"

\* C10: a line item whose product does not exist makes create_order raise an
\* error naming that product id, and a create_order call that fails at any
\* step (unknown product at any position, nonexistent owner, rejected item
\* insert) leaves no Order row and no OrderItem row behind.
C10_AllOrNothing ==
    [][/\ (create_order_loop(Client) /\
           frame[Client].order_data.items[Len(frame[Client].order_items_data) + 1].product_id
               \notin DOMAIN Product) =>
              /\ CreateOrderFails
              /\ ret'[Client].val =
                    [exc |-> "ValueError",
                     product_id |-> frame[Client].order_data.items[
                                        Len(frame[Client].order_items_data) + 1].product_id]
       /\ (create_order_insert(Client) /\
           (\/ frame[Client].order_data.user_id \notin DOMAIN User
            \/ \E k \in DOMAIN frame[Client].order_items_data :
                  frame[Client].order_items_data[k].product_id \notin DOMAIN Product)) =>
              CreateOrderFails
       /\ CreateOrderFails => (Order' = Order /\ OrderItem' = OrderItem)
       /\ (pc'[Client] = "create_order_loop") => (Order' = Order /\ OrderItem' = OrderItem)]_vars

\* create_order has failed on an INSERT (the owner exists, so on an item whose
\* product was deleted after its price was read), and nothing is stored.
C10_Witness ==
    /\ ret[Client] = Outcome("create_order", "raise", [exc |-> "IntegrityError"])
    /\ Order = EmptyTable
    /\ OrderItem = EmptyTable
    /\ DOMAIN Product # DOMAIN SeedProductNames

\* ======================================================== SpecOrderStatus
\* A client process calling cancel_order and update_order_status directly, in
\* any order and with any arguments, on a store that holds orders of every
\* status.
InitOrderStatus ==
    /\ User = SeedUser
    /\ Product = EmptyTable
    /\ OrderItem = EmptyTable
    /\ ServiceRequest = EmptyTable
    /\ \E n \in 1..MaxOrders :
          \E statuses \in [1..n -> OrderStatuses], owners \in [1..n -> list_customers] :
              Order = [o \in 1..n |-> [total_price |-> 0, status |-> statuses[o],
                                       user_id |-> owners[o]]]
    /\ InitSessions

Call_cancel_order(s) ==
    \E order_id \in OrderIdInputs :
        /\ pc[s] = "idle"
        /\ cancel_order(s, order_id)
        /\ UNCHANGED <<User, Product, OrderItem, ServiceRequest, screen, pc, frame>>

Call_update_order_status(s) ==
    \E order_id \in OrderIdInputs, status \in OrderStatuses :
        /\ pc[s] = "idle"
        /\ update_order_status(s, order_id, status)
        /\ UNCHANGED <<User, Product, OrderItem, ServiceRequest, screen, pc, frame>>

NextOrderStatus ==
    \/ Call_cancel_order(Client)
    \/ Call_update_order_status(Client)

SpecOrderStatus == InitOrderStatus /\ [][NextOrderStatus]_vars

\* C3: for every existing order, cancel_order returns True if and only if the
\* order's status is 'Pending' when it is called, and then the status becomes
\* 'Cancelled'; on a 'Completed' or 'Cancelled' order it returns False and
\* leaves the order unchanged; no other order is touched.
C3_CancelSucceedsIffPending ==
    [][\A o \in DOMAIN Order :
          (ret'[Client].op = "cancel_order" /\ cancel_order(Client, o)) =>
              /\ (ret'[Client].kind = "True") <=> (Order[o].status = "Pending")
              /\ Order[o].status = "Pending" =>
                    Order'[o] = [Order[o] EXCEPT !.status = "Cancelled"]
              /\ Order[o].status \in {"Completed", "Cancelled"} =>
                    /\ ret'[Client].kind = "False"
                    /\ Order'[o] = Order[o]
              /\ \A q \in DOMAIN Order \ {o} : Order'[q] = Order[q]]_vars

\* cancel_order has returned True, and there are a cancelled and a completed
\* order in the store.
C3_Witness ==
    /\ ret[Client] = Outcome("cancel_order", "True", Nothing)
    /\ \E o \in DOMAIN Order : Order[o].status = "Cancelled"
    /\ \E o \in DOMAIN Order : Order[o].status = "Completed"

\* ========================================================= SpecCancelRace
\* Every session is logged in as a user who sees the same Pending order, has it
\* selected on the orders tab, and presses cancel.
RaceOrder == lastrowid(EmptyTable)

InitCancelRace ==
    /\ User = SeedUser
    /\ Product = EmptyTable
    /\ OrderItem = EmptyTable
    /\ ServiceRequest = EmptyTable
    /\ \E n \in 1..MaxOrders, owner \in list_customers :
          \E statuses \in [1..n -> OrderStatuses] :
              /\ statuses[RaceOrder] = "Pending"
              /\ Order = [o \in 1..n |-> [total_price |-> 0, status |-> statuses[o],
                                          user_id |-> owner]]
    /\ \E users \in [Sessions -> DOMAIN User] : current_user = users
    /\ \A s \in Sessions : RaceOrder \in _load_orders(s)
    /\ selected_order_id = [s \in Sessions |-> RaceOrder]
    /\ selected_request_id = [s \in Sessions |-> NULL]
    /\ screen_stack = [s \in Sessions |-> WorkspaceStack]
    /\ pc = [s \in Sessions |-> "idle"]
    /\ frame = [s \in Sessions |-> EmptyFrame]
    /\ ret = [s \in Sessions |-> NoOutcome]

NextCancelRace ==
    \E s \in Sessions :
        \/ _handle_order_cancel(s)
        \/ _handle_order_cancel_cancel_order(s)

SpecCancelRace == InitCancelRace /\ [][NextCancelRace]_vars

\* The sessions whose handler got as far as calling cancel_order, and those of
\* them to which it returned True.
CancelCalls == {s \in Sessions : ret[s].op = "cancel_order"}
CancelWinners == {s \in CancelCalls : ret[s].kind = "True"}

\* C4: in every interleaving of the sessions' cancellations of the same Pending
\* order at most one cancel_order call returns True, and once any call has
\* returned exactly one has returned True and the order is 'Cancelled'.
C4_AtMostOneCancelSucceeds ==
    /\ Cardinality(CancelWinners) <= 1
    /\ CancelCalls # {} =>
          /\ Cardinality(CancelWinners) = 1
          /\ Order[RaceOrder].status = "Cancelled"
    /\ CancelCalls = {} => Order[RaceOrder].status = "Pending"

\* Two sessions both read the order as Pending and both called cancel_order:
\* one got True, the other False.
C4_Witness ==
    \E s1, s2 \in Sessions :
        /\ ret[s1] = Outcome("cancel_order", "True", Nothing)
        /\ ret[s2] = Outcome("cancel_order", "False", Nothing)
        /\ Order[RaceOrder].status = "Cancelled"

\* ======================================================== SpecOrderScreens
\* Sessions on the orders tab of WorkspaceScreen: each is logged in as some
\* user, moves the cursor over the orders it is shown, and cancels or
\* completes the selected order.
InitOrderScreens ==
    /\ User = Restrict(SeedUser, 1..4)
    /\ Product = EmptyTable
    /\ OrderItem = EmptyTable
    /\ ServiceRequest = EmptyTable
    /\ \E n \in 1..MaxOrders, owner \in list_customers :
          Order = [o \in 1..n |-> [total_price |-> 0, status |-> "Pending",
                                   user_id |-> owner]]
    /\ \E users \in [Sessions -> DOMAIN User] : current_user = users
    /\ selected_order_id = [s \in Sessions |-> NULL]
    /\ selected_request_id = [s \in Sessions |-> NULL]
    /\ screen_stack = [s \in Sessions |-> WorkspaceStack]
    /\ pc = [s \in Sessions |-> "idle"]
    /\ frame = [s \in Sessions |-> EmptyFrame]
    /\ ret = [s \in Sessions |-> NoOutcome]

NextOrderScreens ==
    \E s \in Sessions :
        \/ on_orders_row_highlighted(s)
        \/ _handle_order_cancel(s)
        \/ _handle_order_cancel_cancel_order(s)
        \/ _handle_order_complete(s)
        \/ _handle_order_complete_update_order_status(s)

SpecOrderScreens == InitOrderScreens /\ [][NextOrderScreens]_vars

\* C5: once an order's status is 'Completed' or 'Cancelled' no step of any
\* session's cancel or complete action changes it.
C5_OrderTerminalStatusFinal ==
    [][\A o \in DOMAIN Order :
          Order[o].status \in {"Completed", "Cancelled"} =>
              Order'[o].status = Order[o].status]_vars

\* ====================================================== SpecServiceScreens
\* Sessions on the services tab of WorkspaceScreen, the store holding one
\* request as create_service_request leaves it: each session is logged in as
\* some user, moves the cursor over the requests it is shown, and assigns,
\* cancels or completes the selected request.
InitServiceScreens ==
    /\ User = Restrict(SeedUser, 1..4)
    /\ Product = EmptyTable
    /\ Order = EmptyTable
    /\ OrderItem = EmptyTable
    /\ \E service_type \in ServiceTypes, customer_id \in list_customers :
          ServiceRequest = Insert(EmptyTable, lastrowid(EmptyTable),
                                  create_service_request_row(service_type, customer_id))
    /\ \E users \in [Sessions -> DOMAIN User] : current_user = users
    /\ selected_order_id = [s \in Sessions |-> NULL]
    /\ selected_request_id = [s \in Sessions |-> NULL]
    /\ screen_stack = [s \in Sessions |-> WorkspaceStack]
    /\ pc = [s \in Sessions |-> "idle"]
    /\ frame = [s \in Sessions |-> EmptyFrame]
    /\ ret = [s \in Sessions |-> NoOutcome]

NextServiceScreens ==
    \E s \in Sessions :
        \/ on_services_row_highlighted(s)
        \/ _handle_service_cancel(s)
        \/ _handle_service_cancel_update_service_request_status(s)
        \/ _handle_service_complete(s)
        \/ _handle_service_complete_update_service_request_status(s)
        \/ action_assign_request(s)

SpecServiceScreens == InitServiceScreens /\ [][NextServiceScreens]_vars

\* C6: once a request's status is 'Completed' or 'Cancelled' no step of any
\* session's assign, complete or cancel action changes it.
C6_RequestTerminalStatusFinal ==
    [][\A r \in DOMAIN ServiceRequest :
          ServiceRequest[r].status \in {"Completed", "Cancelled"} =>
              ServiceRequest'[r].status = ServiceRequest[r].status]_vars

\* The session whose handler performs this step's update_service_request_status
\* call on request r.
UpdatesRequest(s, r) ==
    /\ pc[s] \in {"_handle_service_cancel", "_handle_service_complete"}
    /\ pc'[s] = "idle"
    /\ frame[s].request_id = r

\* The status changes C8 lists.
ListedTransitions ==
    {<<"Pending", "In Progress">>, <<"In Progress", "Completed">>,
     <<"In Progress", "Cancelled">>, <<"Pending", "Cancelled">>}

CascadeOrders(users) == {o \in DOMAIN Order : Order[o].user_id \in users}

\* OrderItem.order_id REFERENCES "Order" ON DELETE CASCADE: the order items
\* that go with the orders deleted.
CascadeOrderItems(orders) == {i \in DOMAIN OrderItem : OrderItem[i].order_id \in orders}

\* ServiceRequest.customer_id and .specialist_id REFERENCE User ON DELETE
\* RESTRICT: a service request still names one of the users.
UserReferenced(users) ==
    \E r \in DOMAIN ServiceRequest :
        \/ ServiceRequest[r].customer_id \in users
        \/ ServiceRequest[r].specialist_id \in users

delete_user_where_mutant(user_id, u) == u <= user_id

\* DELETE FROM User WHERE user_id = ?: the row u matches.
delete_user_where(user_id, u) == u = user_id

\* The rows the DELETE of delete_user matches.
delete_user_rows(user_id) == {u \in DOMAIN User : delete_user_where(user_id, u)}

\* The DELETE raises sqlite3.IntegrityError, which delete_user does not catch.
delete_user_raises(user_id) == UserReferenced(delete_user_rows(user_id))

\* return cursor.rowcount > 0
delete_user_returns(user_id) ==
    IF delete_user_raises(user_id)
    THEN Outcome("delete_user", "raise", [exc |-> "IntegrityError"])
    ELSE IF delete_user_rows(user_id) # {}
    THEN Outcome("delete_user", "True", Nothing)
    ELSE Outcome("delete_user", "False", Nothing)

delete_user(s, user_id) ==
    LET users == delete_user_rows(user_id)
        orders == CascadeOrders(users)
        raised == delete_user_raises(user_id)
    IN  /\ User' = get_db_connection(raised, User, Restrict(User, DOMAIN User \ users))
        /\ Order' = get_db_connection(raised, Order, Restrict(Order, DOMAIN Order \ orders))
        /\ OrderItem' = get_db_connection(raised, OrderItem,
                            Restrict(OrderItem, DOMAIN OrderItem \ CascadeOrderItems(orders)))
        /\ ret' = [ret EXCEPT ![s] = delete_user_returns(user_id)]

\* DELETE FROM "Order" WHERE order_id = ?, issued on a connection of
\* get_db_connection (no function of queries.py deletes an order).
delete_order_sql(s, order_id) ==
    LET orders == {o \in DOMAIN Order : o = order_id}
    IN  /\ Order' = Restrict(Order, DOMAIN Order \ orders)
        /\ OrderItem' = Restrict(OrderItem, DOMAIN OrderItem \ CascadeOrderItems(orders))
        /\ ret' = [ret EXCEPT ![s] =
              Outcome("delete_order_sql", IF orders # {} THEN "True" ELSE "False", Nothing)]

\* DELETE FROM ServiceRequest WHERE request_id = ?; return cursor.rowcount > 0
delete_service_request_db(request_id) ==
    Restrict(ServiceRequest, DOMAIN ServiceRequest \ {request_id})

delete_service_request_returns_mutant(request_id) ==
    Outcome("delete_service_request", "True", Nothing)

delete_service_request_returns(request_id) ==
    IF request_id \in DOMAIN ServiceRequest
    THEN Outcome("delete_service_request", "True", Nothing)
    ELSE Outcome("delete_service_request", "False", Nothing)

delete_service_request(s, request_id) ==
    /\ ServiceRequest' = delete_service_request_db(request_id)
    /\ ret' = [ret EXCEPT ![s] = delete_service_request_returns(request_id)]

\* ============================================================= SpecDelete
\* A client process deleting users, orders and products, in any order and
\* with any ids, from a store that holds orders with items and at most one
\* service request (which keeps its customer and its specialist from being
\* deleted).
MaxItems == MaxOrders

\* The users of the store: a specialist and the customers.
DeleteUsers == {u \in DOMAIN SeedUser : SeedUser[u].role = "Customer"} \cup
               {CHOOSE u \in DOMAIN SeedUser : SeedUser[u].role = "Specialist"}

\* The product of the i-th order item stored: the products in turn.
LineProduct(i) == ((i - 1) % Len(SeedProductNames)) + 1

\* The specialist_id column of a stored request: null or a specialist.
list_specialists == {u \in DOMAIN User : User[u].role = "Specialist"}

InitDelete ==
    /\ User = Restrict(SeedUser, DeleteUsers)
    /\ Product = [p \in DOMAIN SeedProductNames |->
                     [name |-> SeedProductNames[p], category |-> "Equipment",
                      price |-> MaxPrice]]
    /\ \E n \in 0..MaxOrders, k \in 0..MaxItems :
          \E owners \in [1..n -> list_customers],
             lines \in [1..k -> [order_id : 1..n]] :
              /\ OrderItem = [i \in 1..k |->
                                 [order_id |-> lines[i].order_id,
                                  product_id |-> LineProduct(i),
                                  quantity |-> 1, unit_price |-> MaxPrice]]
              /\ Order = [o \in 1..n |->
                             [total_price |->
                                  MaxPrice * Cardinality({i \in 1..k : lines[i].order_id = o}),
                              status |-> "Pending", user_id |-> owners[o]]]
    /\ \/ ServiceRequest = EmptyTable
       \/ \E customer_id \in list_customers, specialist_id \in {NULL} \cup list_specialists :
             ServiceRequest = Insert(EmptyTable, lastrowid(EmptyTable),
                                     [service_type |-> "Support", status |-> "Pending",
                                      customer_id |-> customer_id,
                                      specialist_id |-> specialist_id])
    /\ InitSessions

Call_delete_user(s) ==
    \E user_id \in UserIdInputs :
        /\ pc[s] = "idle"
        /\ delete_user(s, user_id)
        /\ UNCHANGED <<Product, ServiceRequest, screen, pc, frame>>

Call_delete_order_sql(s) ==
    \E order_id \in OrderIdInputs :
        /\ pc[s] = "idle"
        /\ delete_order_sql(s, order_id)
        /\ UNCHANGED <<User, Product, ServiceRequest, screen, pc, frame>>

Call_delete_product(s) ==
    \E product_id \in ProductIdInputs :
        /\ pc[s] = "idle"
        /\ delete_product(s, product_id)
        /\ UNCHANGED <<User, Order, OrderItem, ServiceRequest, screen, pc, frame>>

Call_delete_service_request(s) ==
    \E request_id \in RequestIdInputs :
        /\ pc[s] = "idle"
        /\ delete_service_request(s, request_id)
        /\ UNCHANGED <<User, Product, Order, OrderItem, screen, pc, frame>>

NextDelete ==
    \/ Call_delete_user(Client)
    \/ Call_delete_order_sql(Client)
    \/ Call_delete_product(Client)

SpecDelete == InitDelete /\ [][NextDelete]_vars

\* C11: a delete_user call that deletes user u removes u, every order owned by
\* u and every order item of those orders, and nothing else: no product, no
\* other user, no order or order item of another user; a delete_user call
\* that deletes nothing (False, or the exception of a user still named by a
\* service request) changes nothing; deleting an order removes the order and
\* exactly its order items, and no product.
C11_DeleteCascades ==
    [][/\ \A u \in UserIdInputs :
             (ret'[Client].op = "delete_user" /\ delete_user(Client, u)) =>
                 /\ Product' = Product
                 /\ ret'[Client].kind = "True" =>
                       /\ u \in DOMAIN User
                       /\ DOMAIN User' = DOMAIN User \ {u}
                       /\ DOMAIN Order' = {o \in DOMAIN Order : Order[o].user_id # u}
                       /\ DOMAIN OrderItem' =
                             {i \in DOMAIN OrderItem : Order[OrderItem[i].order_id].user_id # u}
                 /\ ret'[Client].kind # "True" =>
                       (User' = User /\ Order' = Order /\ OrderItem' = OrderItem)
       /\ \A o \in DOMAIN Order :
             (ret'[Client].op = "delete_order_sql" /\ delete_order_sql(Client, o)) =>
                 /\ Product' = Product
                 /\ User' = User
                 /\ DOMAIN Order' = DOMAIN Order \ {o}
                 /\ DOMAIN OrderItem' = {i \in DOMAIN OrderItem : OrderItem[i].order_id # o}
       /\ \A x \in DOMAIN User' : User'[x] = User[x]
       /\ \A x \in DOMAIN Order' : Order'[x] = Order[x]
       /\ \A x \in DOMAIN OrderItem' : OrderItem'[x] = OrderItem[x]]_vars

\* delete_user has deleted a customer: no order and no order item of that
\* customer is left, while another customer's order with its item and every
\* product are still there.
C11_Witness ==
    /\ ret[Client] = Outcome("delete_user", "True", Nothing)
    /\ DOMAIN Product = DOMAIN SeedProductNames
    /\ \E u \in DOMAIN SeedUser \ DOMAIN User :
          /\ SeedUser[u].role = "Customer"
          /\ DOMAIN Order # {}
          /\ \E i \in DOMAIN OrderItem : OrderItem[i].order_id \in DOMAIN Order
          /\ 1 \notin DOMAIN Order

\* C12: delete_product never raises; on a product referenced by an order item
\* it returns False and leaves the product and every order item in place; it
\* returns True exactly when the product existed and was unreferenced, and
\* then the product, and nothing else, is gone.
C12_DeleteProductRestricted ==
    [][\A p \in ProductIdInputs :
          (ret'[Client].op = "delete_product" /\ delete_product(Client, p)) =>
              /\ ret'[Client].kind \in {"True", "False"}
              /\ ProductReferenced(p) =>
                    /\ ret'[Client].kind = "False"
                    /\ p \in DOMAIN Product'
                    /\ Product' = Product
              /\ (ret'[Client].kind = "True") <=>
                    (p \in DOMAIN Product /\ ~ProductReferenced(p))
              /\ ret'[Client].kind = "True" =>
                    /\ p \notin DOMAIN Product'
                    /\ Product' = Restrict(Product, DOMAIN Product \ {p})
              /\ ret'[Client].kind = "False" => Product' = Product
              /\ OrderItem' = OrderItem
              /\ Order' = Order]_vars

\* delete_product has returned False while a product referenced by an order
\* item is in the store, after an unreferenced product was deleted.
C12_Witness ==
    /\ ret[Client] = Outcome("delete_product", "False", Nothing)
    /\ \E i \in DOMAIN OrderItem : OrderItem[i].product_id \in DOMAIN Product
    /\ DOMAIN Product # DOMAIN SeedProductNames

\* ================================================================ users
\* User: email UNIQUE, CHECK (role IN ('Customer', 'Specialist', 'Admin')).
UserRowOK(users, user_id) ==
    /\ users[user_id].role \in Roles
    /\ \A other \in DOMAIN users \ {user_id} : users[other].email # users[user_id].email

UserView(user_id, row) ==
    [user_id |-> user_id, name |-> row.name, email |-> row.email,
     phone |-> row.phone, role |-> row.role, password_hash |-> row.password_hash]

get_user_by_id(user_id) ==
    IF user_id \in DOMAIN User THEN UserView(user_id, User[user_id]) ELSE Nothing

\* The SET list of update_user: the fields of the payload that are not None
\* (a payload is the record of its supplied fields).
update_user_fields(user) == DOMAIN user \cap {"name", "email", "phone", "role", "password"}

\* The payload field that update_user writes to a column: `password_hash = ?`
\* takes user.password, every other column the field of its own name.
update_user_param(column) == IF column = "password_hash" THEN "password" ELSE column

update_user_sql_mutant(user_id, user) ==
    [u \in DOMAIN User |->
        IF u = user_id
        THEN [column \in DOMAIN User[u] |->
                 IF update_user_param(column) \in update_user_fields(user)
                 THEN user[update_user_param(column)]
                 ELSE IF column = "role" THEN User[u][column] ELSE ""]
        ELSE User[u]]

\* UPDATE User SET <fields> WHERE user_id = ?
update_user_sql(user_id, user) ==
    [u \in DOMAIN User |->
        IF u = user_id
        THEN [column \in DOMAIN User[u] |->
                 IF update_user_param(column) \in update_user_fields(user)
                 THEN user[update_user_param(column)]
                 ELSE User[u][column]]
        ELSE User[u]]

\* The UPDATE raises sqlite3.IntegrityError when the row it writes breaks the
\* schema; update_user does not catch it.
update_user_raises(user_id, user) ==
    /\ update_user_fields(user) # {}
    /\ user_id \in DOMAIN User
    /\ ~UserRowOK(update_user_sql(user_id, user), user_id)

update_user_db(user_id, user) ==
    IF update_user_fields(user) = {}
    THEN User
    ELSE get_db_connection(update_user_raises(user_id, user),
                           User, update_user_sql(user_id, user))

\* `if not fields: return get_user_by_id(...)`; None when rowcount == 0.
update_user_returns(user_id, user) ==
    IF update_user_raises(user_id, user)
    THEN Outcome("update_user", "raise", [exc |-> "IntegrityError"])
    ELSE IF user_id \notin DOMAIN User
    THEN Outcome("update_user", "None", Nothing)
    ELSE Outcome("update_user", "value",
                 UserView(user_id, update_user_db(user_id, user)[user_id]))

update_user(s, user_id, user) ==
    /\ User' = update_user_db(user_id, user)
    /\ ret' = [ret EXCEPT ![s] = update_user_returns(user_id, user)]

\* ============================================================ SpecUpdate
\* update_user and update_product as functions of the stored rows and of
\* their arguments: the initial states hold a store and one call of the
\* client, with its arguments in the client's frame; the step runs the call.
UserNames == {"Sara", "Reza"}
UserEmails == {"sara@example.com", "reza@example.com", "new@example.com"}
UserPhones == {"0911", "0912"}
PasswordHashes == {"hash1", "hash2"}

\* UserUpdate payloads: every subset of the fields, each with a value.
UserUpdateInputs ==
    {Restrict(full, supplied) :
        full \in [name : UserNames, email : UserEmails, phone : UserPhones,
                  role : Roles, password : PasswordHashes],
        supplied \in SUBSET {"name", "email", "phone", "role", "password"}}

\* ProductUpdate payloads: every subset of the fields, each with a value;
\* the model validates price >= 0 only, so MaxPrice + 1 values do.
ProductFieldInputs ==
    {Restrict(full, supplied) :
        full \in [name : {"P3"}, category : {"Parts"}, price : Prices],
        supplied \in SUBSET {"name", "category", "price"}}

InitUpdate ==
    /\ \E name \in UserNames, phone \in UserPhones, role \in Roles :
          User = <<[name |-> name, email |-> "sara@example.com", phone |-> phone,
                    role |-> role, password_hash |-> "hash1"],
                   [name |-> "Reza", email |-> "reza@example.com", phone |-> "0912",
                    role |-> "Specialist", password_hash |-> "hash2"]>>
    /\ \E prices \in [DOMAIN SeedProductNames -> Prices] :
          Product = [p \in DOMAIN SeedProductNames |->
                        [name |-> SeedProductNames[p], category |-> "Equipment",
                         price |-> prices[p]]]
    /\ Order = EmptyTable
    /\ OrderItem = EmptyTable
    /\ ServiceRequest = EmptyTable
    /\ current_user = [s \in Sessions |-> NULL]
    /\ selected_order_id = [s \in Sessions |-> NULL]
    /\ selected_request_id = [s \in Sessions |-> NULL]
    /\ screen_stack = [s \in Sessions |-> StartStack]
    /\ ret = [s \in Sessions |-> NoOutcome]
    /\ \/ \E user_id \in DOMAIN User \cup {NoSuchId}, user \in UserUpdateInputs :
             /\ pc = [s \in Sessions |-> IF s = Client THEN "update_user" ELSE "idle"]
             /\ frame = [s \in Sessions |->
                            IF s = Client THEN [user_id |-> user_id, user |-> user]
                            ELSE EmptyFrame]
       \/ \E product_id \in ProductIdInputs, product \in ProductFieldInputs :
             /\ pc = [s \in Sessions |-> IF s = Client THEN "update_product" ELSE "idle"]
             /\ frame = [s \in Sessions |->
                            IF s = Client THEN [product_id |-> product_id, product |-> product]
                            ELSE EmptyFrame]

Run_update_user(s) ==
    /\ pc[s] = "update_user"
    /\ update_user(s, frame[s].user_id, frame[s].user)
    /\ pc' = [pc EXCEPT ![s] = "done"]
    /\ UNCHANGED <<Product, Order, OrderItem, ServiceRequest, screen, frame>>

Run_update_product(s) ==
    /\ pc[s] = "update_product"
    /\ update_product(s, frame[s].product_id, frame[s].product)
    /\ pc' = [pc EXCEPT ![s] = "done"]
    /\ UNCHANGED <<User, Order, OrderItem, ServiceRequest, screen, frame>>

NextUpdate ==
    \/ Run_update_user(Client)
    \/ Run_update_product(Client)

SpecUpdate == InitUpdate /\ [][NextUpdate]_vars

\* What a partial update may do to a table for the call on `id` that supplied
\* `values` (column -> value) and returned `outcome`: rows other than id are
\* kept; the columns of row id that are not supplied are kept; a returned
\* entity is the stored row and carries every supplied value; a call without
\* values changes nothing and returns the current row; an id without a row
\* changes nothing and returns None.
PartialUpdate(before, after, id, values, current, stored, outcome) ==
    /\ DOMAIN after = DOMAIN before
    /\ \A other \in DOMAIN before \ {id} : after[other] = before[other]
    /\ id \in DOMAIN before =>
          /\ \A column \in DOMAIN before[id] \ DOMAIN values :
                after[id][column] = before[id][column]
          /\ outcome.kind \in {"value", "raise"}
          /\ outcome.kind = "raise" => after = before /\ DOMAIN values # {}
          /\ outcome.kind = "value" =>
                /\ outcome.val = stored
                /\ \A column \in DOMAIN values : after[id][column] = values[column]
          /\ DOMAIN values = {} =>
                after = before /\ outcome = Outcome(outcome.op, "value", current)
    /\ id \notin DOMAIN before =>
          after = before /\ outcome = Outcome(outcome.op, "None", Nothing)

\* The columns a UserUpdate supplies, with their values.
UserValues(user) ==
    [column \in {x \in {"name", "email", "phone", "role", "password_hash"} :
                    update_user_param(x) \in DOMAIN user} |->
        user[update_user_param(column)]]

\* C13: update_user and update_product write only the supplied fields of the
\* row with the given id and leave every other field and row unchanged; with
\* no field supplied they change nothing and return the current entity; with
\* an id that matches no row they return None and change nothing.
C13_PartialUpdate ==
    [][/\ (pc[Client] = "update_user" /\ pc'[Client] = "done") =>
             /\ PartialUpdate(User, User', frame[Client].user_id,
                              UserValues(frame[Client].user),
                              UserView(frame[Client].user_id, User[frame[Client].user_id]),
                              UserView(frame[Client].user_id, User'[frame[Client].user_id]),
                              ret'[Client])
             /\ ret'[Client].op = "update_user"
             /\ UNCHANGED <<Product, Order, OrderItem, ServiceRequest>>
       /\ (pc[Client] = "update_product" /\ pc'[Client] = "done") =>
             /\ PartialUpdate(Product, Product', frame[Client].product_id,
                              frame[Client].product,
                              ProductView(frame[Client].product_id,
                                          Product[frame[Client].product_id]),
                              ProductView(frame[Client].product_id,
                                          Product'[frame[Client].product_id]),
                              ret'[Client])
             /\ ret'[Client].op = "update_product"
             /\ UNCHANGED <<User, Order, OrderItem, ServiceRequest>>]_vars

\* A call that supplied some fields and not others has returned the entity,
\* and the row differs from what it was in a supplied field only.
C13_Witness ==
    /\ pc[Client] = "done"
    /\ ret[Client].op = "update_user"
    /\ ret[Client].kind = "value"
    /\ DOMAIN frame[Client].user = {"name", "password"}
    /\ frame[Client].user.name = "Reza"
    /\ User[frame[Client].user_id].name = "Reza"
    /\ User[frame[Client].user_id].email = "sara@example.com"
    /\ User[frame[Client].user_id].password_hash = "hash2"

\* =========================================================== SpecNoMatch
\* A client calling every id-based function of the data-access layer, with
\* ids of stored rows and with ids that match no row.
Found(op, entity) ==
    IF entity = Nothing THEN Outcome(op, "None", Nothing) ELSE Outcome(op, "value", entity)

\* The payloads of the updates: nothing supplied, or one field.
NoMatchUserInputs == {<<>>, [phone |-> "0911"], [email |-> "reza@example.com"]}
NoMatchProductInputs == {<<>>, [category |-> "Parts"]}

InitNoMatch ==
    /\ User = <<[name |-> "Sara", email |-> "sara@example.com", phone |-> "0912",
                 role |-> "Customer", password_hash |-> "hash1"],
                [name |-> "Reza", email |-> "reza@example.com", phone |-> "0912",
                 role |-> "Specialist", password_hash |-> "hash2"]>>
    /\ Product = <<[name |-> "P1", category |-> "Equipment", price |-> MaxPrice]>>
    /\ \/ Order = EmptyTable /\ OrderItem = EmptyTable
       \/ \E user_id \in list_customers, product_id \in DOMAIN Product :
             /\ Order = <<[total_price |-> Product[product_id].price,
                           status |-> "Pending", user_id |-> user_id]>>
             /\ OrderItem = <<[order_id |-> 1, product_id |-> product_id, quantity |-> 1,
                               unit_price |-> Product[product_id].price]>>
    /\ \/ ServiceRequest = EmptyTable
       \/ \E customer_id \in list_customers :
             ServiceRequest = Insert(EmptyTable, lastrowid(EmptyTable),
                                     create_service_request_row("Support", customer_id))
    /\ InitSessions

Call_get_user_by_id(s) ==
    \E user_id \in UserIdInputs :
        /\ pc[s] = "idle"
        /\ ret' = [ret EXCEPT ![s] = Found("get_user_by_id", get_user_by_id(user_id))]
        /\ UNCHANGED <<tables, screen, pc, frame>>

Call_get_product_by_id(s) ==
    \E product_id \in ProductIdInputs :
        /\ pc[s] = "idle"
        /\ ret' = [ret EXCEPT ![s] = Found("get_product_by_id", get_product_by_id(product_id))]
        /\ UNCHANGED <<tables, screen, pc, frame>>

Call_get_order_by_id(s) ==
    \E order_id \in OrderIdInputs :
        /\ pc[s] = "idle"
        /\ ret' = [ret EXCEPT ![s] = Found("get_order_by_id", get_order_by_id(order_id))]
        /\ UNCHANGED <<tables, screen, pc, frame>>

Call_get_service_request_by_id(s) ==
    \E request_id \in RequestIdInputs :
        /\ pc[s] = "idle"
        /\ ret' = [ret EXCEPT ![s] =
                      Found("get_service_request_by_id", get_service_request_by_id(request_id))]
        /\ UNCHANGED <<tables, screen, pc, frame>>

Call_update_user(s) ==
    \E user_id \in UserIdInputs, user \in NoMatchUserInputs :
        /\ pc[s] = "idle"
        /\ update_user(s, user_id, user)
        /\ UNCHANGED <<Product, Order, OrderItem, ServiceRequest, screen, pc, frame>>

Call_update_product(s) ==
    \E product_id \in ProductIdInputs, product \in NoMatchProductInputs :
        /\ pc[s] = "idle"
        /\ update_product(s, product_id, product)
        /\ UNCHANGED <<User, Order, OrderItem, ServiceRequest, screen, pc, frame>>

NextNoMatch ==
    \/ Call_get_user_by_id(Client)
    \/ Call_update_user(Client)
    \/ Call_delete_user(Client)
    \/ Call_get_product_by_id(Client)
    \/ Call_update_product(Client)
    \/ Call_delete_product(Client)
    \/ Call_get_order_by_id(Client)
    \/ Call_update_order_status(Client)
    \/ Call_cancel_order(Client)
    \/ Call_get_service_request_by_id(Client)
    \/ Call_update_service_request_status(Client)
    \/ Call_assign_specialist(Client)
    \/ Call_delete_service_request(Client)

SpecNoMatch == InitNoMatch /\ [][NextNoMatch]_vars

\* The ids that match no row of a table: the id of no row ever stored, and
\* the ids up to MaxRows of the rows deleted since.
MaxRows == 2
NoRow(table) == ({NoSuchId} \cup 1..MaxRows) \ DOMAIN table

\* The step is the call `op` and its outcome is None or False with every
\* table as it was.
NoMatchOutcome(op) ==
    /\ ret'[Client].op = op
    /\ ret'[Client].kind \in {"None", "False"}
    /\ UNCHANGED tables

\* C14: every id-based get, update, status update, cancel, assign and delete
\* called with an id that matches no row returns None or False, does not
\* raise, and leaves the stored state unchanged.
C14_NoMatchNoEffect ==
    [][/\ \A user_id \in NoRow(User) :
             /\ (/\ ret'[Client].op = "get_user_by_id"
                 /\ ret'[Client] = Found("get_user_by_id", get_user_by_id(user_id)))
                   => NoMatchOutcome("get_user_by_id")
             /\ \A user \in NoMatchUserInputs :
                   (ret'[Client].op = "update_user" /\ update_user(Client, user_id, user))
                      => NoMatchOutcome("update_user")
             /\ (ret'[Client].op = "delete_user" /\ delete_user(Client, user_id))
                   => NoMatchOutcome("delete_user")
       /\ \A product_id \in NoRow(Product) :
             /\ (/\ ret'[Client].op = "get_product_by_id"
                 /\ ret'[Client] = Found("get_product_by_id", get_product_by_id(product_id)))
                   => NoMatchOutcome("get_product_by_id")
             /\ \A product \in NoMatchProductInputs :
                   (/\ ret'[Client].op = "update_product"
                    /\ update_product(Client, product_id, product))
                      => NoMatchOutcome("update_product")
             /\ (ret'[Client].op = "delete_product" /\ delete_product(Client, product_id))
                   => NoMatchOutcome("delete_product")
       /\ \A order_id \in NoRow(Order) :
             /\ (/\ ret'[Client].op = "get_order_by_id"
                 /\ ret'[Client] = Found("get_order_by_id", get_order_by_id(order_id)))
                   => NoMatchOutcome("get_order_by_id")
             /\ \A status \in OrderStatuses :
                   (/\ ret'[Client].op = "update_order_status"
                    /\ update_order_status(Client, order_id, status))
                      => NoMatchOutcome("update_order_status")
             /\ (ret'[Client].op = "cancel_order" /\ cancel_order(Client, order_id))
                   => NoMatchOutcome("cancel_order")
       /\ \A request_id \in NoRow(ServiceRequest) :
             /\ (/\ ret'[Client].op = "get_service_request_by_id"
                 /\ ret'[Client] = Found("get_service_request_by_id",
                                         get_service_request_by_id(request_id)))
                   => NoMatchOutcome("get_service_request_by_id")
             /\ \A status \in RequestStatuses :
                   (/\ ret'[Client].op = "update_service_request_status"
                    /\ update_service_request_status(Client, request_id, status))
                      => NoMatchOutcome("update_service_request_status")
             /\ \A specialist_id \in UserIdInputs :
                   (/\ ret'[Client].op = "assign_specialist"
                    /\ assign_specialist(Client, request_id, specialist_id))
                      => NoMatchOutcome("assign_specialist")
             /\ (/\ ret'[Client].op = "delete_service_request"
                 /\ delete_service_request(Client, request_id))
                   => NoMatchOutcome("delete_service_request")]_vars

\* delete_service_request has returned False (its id matched no row) while
\* rows of every table are stored.
C14_Witness ==
    /\ ret[Client] = Outcome("delete_service_request", "False", Nothing)
    /\ DOMAIN User # {}
    /\ DOMAIN Product # {}
    /\ DOMAIN Order # {}
    /\ DOMAIN ServiceRequest # {}

\* ================================================================ lists
\* Text that a search looks into is a sequence of characters.
\* SQLite's LIKE folds the case of ASCII letters.
LowerCase == [A |-> "a", I |-> "i", R |-> "r", S |-> "s"]
Fold(ch) == IF ch \in DOMAIN LowerCase THEN LowerCase[ch] ELSE ch

\* text LIKE pattern: % matches any run of characters, _ any one character.
RECURSIVE Like(_, _)
Like(text, pattern) ==
    IF pattern = <<>> THEN text = <<>>
    ELSE IF Head(pattern) = "%"
    THEN Like(text, Tail(pattern)) \/ (text # <<>> /\ Like(Tail(text), pattern))
    ELSE /\ text # <<>>
         /\ Head(pattern) = "_" \/ Fold(Head(pattern)) = Fold(Head(text))
         /\ Like(Tail(text), Tail(pattern))

\* search_pattern = f"%{search}%"
search_pattern(search) == <<"%">> \o search \o <<"%">>

\* An integer column compared by LIKE is its decimal text.
Digits == <<"1", "2", "3", "4", "5", "6", "7", "8", "9">>
RECURSIVE DecimalText(_)
DecimalText(n) ==
    IF n = 0 THEN <<"0">>
    ELSE IF n < 10 THEN <<Digits[n]>>
    ELSE DecimalText(n \div 10) \o DecimalText(n % 10)

\* The text of a service_type column.
ServiceTypeText ==
    [Installation |-> <<"I", "n", "s", "t", "a", "l", "l", "a", "t", "i", "o", "n">>,
     Support |-> <<"S", "u", "p", "p", "o", "r", "t">>]

\* The filters of a list call are the record of the arguments that are not
\* None.  `if role:` adds its clause for a non-empty string, `if user_id:`
\* for a non-zero id, `if specialist_id is not None:` for any id.
list_users_mutant(filters) ==
    {u \in DOMAIN User :
        IF "search" \in DOMAIN filters /\ filters.search # <<>>
        THEN \/ Like(User[u].name, search_pattern(filters.search))
             \/ Like(User[u].email, search_pattern(filters.search))
             \/ Like(User[u].phone, search_pattern(filters.search))
        ELSE ("role" \in DOMAIN filters /\ filters.role # "") => User[u].role = filters.role}

\* list_users(role, search), as the ids of its rows.
list_users(filters) ==
    {u \in DOMAIN User :
        /\ ("role" \in DOMAIN filters /\ filters.role # "") => User[u].role = filters.role
        /\ ("search" \in DOMAIN filters /\ filters.search # <<>>) =>
              \/ Like(User[u].name, search_pattern(filters.search))
              \/ Like(User[u].email, search_pattern(filters.search))
              \/ Like(User[u].phone, search_pattern(filters.search))}

\* list_products(category, search), as the ids of its rows.
list_products(filters) ==
    {p \in DOMAIN Product :
        /\ ("category" \in DOMAIN filters /\ filters.category # <<>>) =>
              Product[p].category = filters.category
        /\ ("search" \in DOMAIN filters /\ filters.search # <<>>) =>
              \/ Like(Product[p].name, search_pattern(filters.search))
              \/ Like(Product[p].category, search_pattern(filters.search))}

\* list_orders(user_id, status, search), as the ids of its rows.
list_orders_query(filters) ==
    {o \in DOMAIN Order :
        /\ Order[o].user_id \in DOMAIN User
        /\ ("user_id" \in DOMAIN filters /\ filters.user_id # 0) =>
              Order[o].user_id = filters.user_id
        /\ ("status" \in DOMAIN filters /\ filters.status # "") =>
              Order[o].status = filters.status
        /\ ("search" \in DOMAIN filters /\ filters.search # <<>>) =>
              \/ Like(User[Order[o].user_id].name, search_pattern(filters.search))
              \/ Like(DecimalText(o), search_pattern(filters.search))}

\* list_service_requests(status, customer_id, specialist_id, search), as the
\* ids of its rows; specialist_id = 0 asks for the unassigned requests.
list_service_requests_query(filters) ==
    {r \in DOMAIN ServiceRequest :
        /\ ServiceRequest[r].customer_id \in DOMAIN User
        /\ ("status" \in DOMAIN filters /\ filters.status # "") =>
              ServiceRequest[r].status = filters.status
        /\ ("customer_id" \in DOMAIN filters /\ filters.customer_id # 0) =>
              ServiceRequest[r].customer_id = filters.customer_id
        /\ "specialist_id" \in DOMAIN filters =>
              IF filters.specialist_id = 0
              THEN ServiceRequest[r].specialist_id = NULL
              ELSE ServiceRequest[r].specialist_id = filters.specialist_id
        /\ ("search" \in DOMAIN filters /\ filters.search # <<>>) =>
              \/ Like(User[ServiceRequest[r].customer_id].name,
                      search_pattern(filters.search))
              \/ Like(ServiceTypeText[ServiceRequest[r].service_type],
                      search_pattern(filters.search))}

\* ============================================================== SpecList
\* The list functions as functions of the stored rows and of their filters:
\* the initial states hold a store and one call of the client, with its
\* filters in the client's frame; the step runs the call.
ListUser ==
    <<[name |-> <<"A", "l", "i">>, email |-> <<"a", "@", "c", "m">>,
       phone |-> <<"0", "9", "1">>, role |-> "Admin"],
      [name |-> <<"S", "a", "m">>, email |-> <<"s", "@", "c", "m">>,
       phone |-> <<"0", "9", "2">>, role |-> "Specialist"],
      [name |-> <<"R", "e", "z", "a">>, email |-> <<"r", "@", "c", "m">>,
       phone |-> <<"0", "9", "3">>, role |-> "Specialist"],
      [name |-> <<"S", "a", "r", "a">>, email |-> <<"s", "@", "x">>,
       phone |-> <<"0", "9", "4">>, role |-> "Customer"],
      [name |-> <<"I", "r", "a", "j">>, email |-> <<"i", "@", "x">>,
       phone |-> <<"0", "8", "5">>, role |-> "Customer"]>>

ListProduct ==
    <<[name |-> <<"C", "a", "m">>, category |-> <<"S", "e", "c">>, price |-> MaxPrice],
      [name |-> <<"L", "o", "c", "k">>, category |-> <<"S", "e", "c">>, price |-> 0],
      [name |-> <<"H", "u", "b">>, category |-> <<"N", "e", "t">>, price |-> MaxPrice]>>

ListCustomers == {u \in DOMAIN ListUser : ListUser[u].role = "Customer"}
ListSpecialists == {u \in DOMAIN ListUser : ListUser[u].role = "Specialist"}

\* The values a search is made with.
SearchInputs == {<<"a">>, <<"S", "A">>, <<"@", "c">>, <<"_", "e">>, <<"2">>}

\* Every way of leaving arguments unset, over the records of `all`.
Filters(all) == {Restrict(full, supplied) : full \in all, supplied \in SUBSET {
                    "role", "category", "status", "user_id", "customer_id",
                    "specialist_id", "search"}}

list_users_inputs == Filters([role : Roles, search : SearchInputs])
list_products_inputs ==
    Filters([category : {<<"S", "e", "c">>, <<"s", "e", "c">>}, search : SearchInputs])
list_orders_inputs ==
    Filters([user_id : ListCustomers \cup {NoSuchId}, status : OrderStatuses,
             search : SearchInputs])
list_service_requests_inputs ==
    Filters([status : RequestStatuses, customer_id : ListCustomers,
             specialist_id : {0} \cup ListSpecialists,
             search : {<<"a">>, <<"S">>, <<"_", "u">>}])

\* The orders and service requests a store may hold.
ListOrderRows ==
    [total_price : {MaxPrice}, status : OrderStatuses, user_id : ListCustomers]
ListRequestRows ==
    {[service_type |-> "Support", status |-> "Pending",
      customer_id |-> 4, specialist_id |-> NULL],
     [service_type |-> "Installation", status |-> "In Progress",
      customer_id |-> 4, specialist_id |-> 2],
     [service_type |-> "Support", status |-> "In Progress",
      customer_id |-> 5, specialist_id |-> 3],
     [service_type |-> "Installation", status |-> "Completed",
      customer_id |-> 5, specialist_id |-> 2],
     [service_type |-> "Installation", status |-> "Cancelled",
      customer_id |-> 5, specialist_id |-> NULL]}

ListCall(op, filters) ==
    /\ pc = [s \in Sessions |-> IF s = Client THEN op ELSE "idle"]
    /\ frame = [s \in Sessions |-> IF s = Client THEN filters ELSE EmptyFrame]

InitList ==
    /\ User = ListUser
    /\ Product = ListProduct
    /\ OrderItem = EmptyTable
    /\ current_user = [s \in Sessions |-> NULL]
    /\ selected_order_id = [s \in Sessions |-> NULL]
    /\ selected_request_id = [s \in Sessions |-> NULL]
    /\ screen_stack = [s \in Sessions |-> StartStack]
    /\ ret = [s \in Sessions |-> NoOutcome]
    /\ \/ /\ Order = EmptyTable /\ ServiceRequest = EmptyTable
          /\ \E filters \in list_users_inputs : ListCall("list_users", filters)
       \/ /\ Order = EmptyTable /\ ServiceRequest = EmptyTable
          /\ \E filters \in list_products_inputs : ListCall("list_products", filters)
       \/ /\ ServiceRequest = EmptyTable
          /\ \E n \in 0..MaxOrders : \E orders \in [1..n -> ListOrderRows] : Order = orders
          /\ \E filters \in list_orders_inputs : ListCall("list_orders", filters)
       \/ /\ Order = EmptyTable
          /\ \E n \in 0..MaxRequests :
                \E requests \in [1..n -> ListRequestRows] : ServiceRequest = requests
          /\ \E filters \in list_service_requests_inputs :
                ListCall("list_service_requests", filters)

Run_list_users(s) ==
    /\ pc[s] = "list_users"
    /\ ret' = [ret EXCEPT ![s] = Outcome("list_users", "value", list_users(frame[s]))]
    /\ pc' = [pc EXCEPT ![s] = "done"]
    /\ UNCHANGED <<tables, screen, frame>>

Run_list_products(s) ==
    /\ pc[s] = "list_products"
    /\ ret' = [ret EXCEPT ![s] = Outcome("list_products", "value", list_products(frame[s]))]
    /\ pc' = [pc EXCEPT ![s] = "done"]
    /\ UNCHANGED <<tables, screen, frame>>

Run_list_orders(s) ==
    /\ pc[s] = "list_orders"
    /\ ret' = [ret EXCEPT ![s] = Outcome("list_orders", "value", list_orders_query(frame[s]))]
    /\ pc' = [pc EXCEPT ![s] = "done"]
    /\ UNCHANGED <<tables, screen, frame>>

Run_list_service_requests(s) ==
    /\ pc[s] = "list_service_requests"
    /\ ret' = [ret EXCEPT ![s] = Outcome("list_service_requests", "value",
                                         list_service_requests_query(frame[s]))]
    /\ pc' = [pc EXCEPT ![s] = "done"]
    /\ UNCHANGED <<tables, screen, frame>>

NextList ==
    \/ Run_list_users(Client)
    \/ Run_list_products(Client)
    \/ Run_list_orders(Client)
    \/ Run_list_service_requests(Client)

SpecList == InitList /\ [][NextList]_vars

\* Row `row` satisfies the filter `f` given as `value`: the column f has the
\* value (no specialist is specialist_id 0), or, for a search, one of the
\* searched texts contains the value.
Satisfies(row, texts, f, value) ==
    IF f = "search"
    THEN \E text \in texts : Like(text, search_pattern(value))
    ELSE row[f] = value

\* The rows returned for `filters` are rows of the unfiltered list `all`, and
\* of these exactly the `selected` ones.
FilteredExactly(rows, all, selected) == rows \subseteq all /\ rows = selected

list_specialists_seed == {u \in DOMAIN SeedUser : SeedUser[u].role = "Specialist"}
list_customers_seed == {u \in DOMAIN SeedUser : SeedUser[u].role = "Customer"}

\* The rows a ServiceRequest table may hold: unassigned ones, and ones
\* assigned to a specialist and progressed.
RequestRows ==
    [service_type : ServiceTypeInputs, status : {"Pending", "Cancelled"},
     customer_id : list_customers_seed, specialist_id : {NULL}] \cup
    [service_type : ServiceTypeInputs, status : {"In Progress", "Completed"},
     customer_id : list_customers_seed, specialist_id : list_specialists_seed]

InitRequestLists ==
    /\ User = SeedUser
    /\ Product = EmptyTable
    /\ Order = EmptyTable
    /\ OrderItem = EmptyTable
    /\ \E n \in 0..MaxRequests :
          \E requests \in [1..n -> RequestRows] : ServiceRequest = requests
    /\ selected_order_id = [s \in Sessions |-> NULL]
    /\ selected_request_id = [s \in Sessions |-> NULL]
    /\ ret = [s \in Sessions |-> NoOutcome]
    /\ \/ /\ \E user_id \in DOMAIN User :
                current_user = [s \in Sessions |-> IF s = Client THEN user_id ELSE NULL]
          /\ screen_stack = [s \in Sessions |->
                                IF s = Client THEN WorkspaceStack ELSE StartStack]
          /\ pc = [s \in Sessions |-> IF s = Client THEN "_load_requests" ELSE "idle"]
          /\ frame = [s \in Sessions |-> EmptyFrame]
       \/ /\ current_user = [s \in Sessions |-> NULL]
          /\ screen_stack = [s \in Sessions |-> StartStack]
          /\ pc = [s \in Sessions |->
                      IF s = Client THEN "list_service_requests_for_specialist" ELSE "idle"]
          /\ \E specialist_id \in UserIdInputs :
                frame = [s \in Sessions |->
                            IF s = Client THEN [specialist_id |-> specialist_id]
                            ELSE EmptyFrame]

\* WorkspaceScreen._load_requests: self.requests is what the table shows.
Run__load_requests(s) ==
    /\ pc[s] = "_load_requests"
    /\ frame' = [frame EXCEPT ![s] = [requests |-> _load_requests(s)]]
    /\ pc' = [pc EXCEPT ![s] = "done"]
    /\ UNCHANGED <<tables, screen, ret>>

Run_list_service_requests_for_specialist(s) ==
    /\ pc[s] = "list_service_requests_for_specialist"
    /\ ret' = [ret EXCEPT ![s] =
                  Outcome("list_service_requests_for_specialist", "value",
                          list_service_requests_for_specialist(frame[s].specialist_id))]
    /\ pc' = [pc EXCEPT ![s] = "done"]
    /\ UNCHANGED <<tables, screen, frame>>

NextRequestLists ==
    \/ Run__load_requests(Client)
    \/ Run_list_service_requests_for_specialist(Client)

SpecRequestLists == InitRequestLists /\ [][NextRequestLists]_vars

\* C16: list_service_requests_for_specialist(s) returns exactly the requests
\* whose specialist_id is null or s; the services list loaded in a Specialist
\* session holds no request assigned to another specialist, and the one
\* loaded in a Customer session only requests of the session's user.
C16_ServicesListScoped ==
    [][/\ (pc[Client] = "list_service_requests_for_specialist" /\ pc'[Client] = "done") =>
             ret'[Client].val =
                {r \in DOMAIN ServiceRequest :
                    ServiceRequest[r].specialist_id \in {NULL, frame[Client].specialist_id}}
       /\ (pc[Client] = "_load_requests" /\ pc'[Client] = "done") =>
             /\ current_user_role(Client) = "Specialist" =>
                   \A r \in frame'[Client].requests :
                      ServiceRequest[r].specialist_id \in {NULL, current_user[Client]}
             /\ current_user_role(Client) = "Customer" =>
                   \A r \in frame'[Client].requests :
                      ServiceRequest[r].customer_id = current_user[Client]]_vars

\* A specialist's loaded list holds an unassigned request and leaves out a
\* request assigned to the other specialist.
C16_Witness ==
    /\ pc[Client] = "done"
    /\ current_user[Client] # NULL
    /\ current_user_role(Client) = "Specialist"
    /\ \E r \in frame[Client].requests : ServiceRequest[r].specialist_id = NULL
    /\ \E r \in DOMAIN ServiceRequest \ frame[Client].requests :
          ServiceRequest[r].specialist_id \notin {NULL, current_user[Client]}

\* ======================================================= authentication
\* bcrypt: a hash carries its salt; checkpw hashes the password with the salt
\* of the stored hash and compares.
hashpw(password, salt) == [salt |-> salt, digest |-> <<salt, password>>]
checkpw(password, hashed_password) == hashpw(password, hashed_password.salt) = hashed_password

\* The rows SELECT ... FROM User WHERE email = ? finds (at most one, email
\* being UNIQUE).
UsersByEmail(email) == {u \in DOMAIN User : User[u].email = email}

\* get_user_password_hash: the hash of the row with the email, or None.
get_user_password_hash(email) ==
    IF UsersByEmail(email) = {} THEN Nothing
    ELSE User[CHOOSE u \in UsersByEmail(email) : TRUE].password_hash

\* authenticate_user: the SessionUser of the row with credentials.email (the
\* model keeps its user_id), or None; credentials.password is not looked at.
authenticate_user(credentials) ==
    IF UsersByEmail(credentials.email) = {} THEN NULL
    ELSE CHOOSE u \in UsersByEmail(credentials.email) : TRUE

get_user_by_email(email) ==
    IF UsersByEmail(email) = {} THEN Nothing
    ELSE LET u == CHOOSE x \in UsersByEmail(email) : TRUE IN UserView(u, User[u])

\* create_user: INSERT INTO User; the INSERT raises sqlite3.IntegrityError
\* when the schema rejects the row.
create_user_row(user, password_hash) ==
    [name |-> user.name, email |-> user.email, phone |-> user.phone,
     role |-> user.role, password_hash |-> password_hash]

create_user_sql(user, password_hash) ==
    Insert(User, lastrowid(User), create_user_row(user, password_hash))

create_user_raises_mutant(user, password_hash) == FALSE

create_user_raises(user, password_hash) ==
    ~UserRowOK(create_user_sql(user, password_hash), lastrowid(User))

create_user_db(user, password_hash) ==
    get_db_connection(create_user_raises(user, password_hash),
                      User, create_user_sql(user, password_hash))

create_user_returns(user, password_hash) ==
    IF create_user_raises(user, password_hash)
    THEN Outcome("create_user", "raise", [exc |-> "IntegrityError"])
    ELSE Outcome("create_user", "value",
                 UserView(lastrowid(User), create_user_row(user, password_hash)))

create_user(s, user, password_hash) ==
    /\ User' = create_user_db(user, password_hash)
    /\ ret' = [ret EXCEPT ![s] = create_user_returns(user, password_hash)]

\* --------------------------------------------------------- LoginScreen
\* The screen on top of the stack of session s.
active_screen(s) == screen_stack[s][Len(screen_stack[s])]
push_screen(stack, name) == Append(stack, name)

\* LoginScreen.action_login up to the password check, for the values of the
\* email (stripped) and password inputs; the inputs keep their values and
\* error_label the message.  A verified password leads on to authenticate_user.
action_login_verified(email, password) ==
    /\ email # "" /\ password # ""
    /\ get_user_password_hash(email) # Nothing
    /\ checkpw(password, get_user_password_hash(email))

action_login_message(email, password) ==
    IF email = "" \/ password = "" THEN "Please enter both email and password"
    ELSE IF get_user_password_hash(email) = Nothing THEN "Invalid email or password"
    ELSE IF ~checkpw(password, get_user_password_hash(email))
    THEN "Invalid email or password"
    ELSE ""

action_login(s, email, password) ==
    /\ pc[s] = "idle"
    /\ active_screen(s) = "login"
    /\ IF action_login_verified(email, password)
       THEN /\ pc' = [pc EXCEPT ![s] = "action_login"]
            /\ frame' = [frame EXCEPT ![s] =
                            [email |-> email, password |-> password,
                             error_label |-> IF "error_label" \in DOMAIN frame[s]
                                             THEN frame[s].error_label ELSE ""]]
       ELSE /\ frame' = [frame EXCEPT ![s] =
                            [email |-> email, password |-> password,
                             error_label |-> action_login_message(email, password)]]
            /\ UNCHANGED pc
    /\ UNCHANGED <<tables, screen, ret>>

\* action_login from authenticate_user on: the user becomes app.current_user
\* and the dashboard is pushed, or error_label says "Authentication failed".
action_login_authenticate_user(s) ==
    /\ pc[s] = "action_login"
    /\ LET user == authenticate_user(frame[s])
       IN  IF user # NULL
           THEN /\ current_user' = [current_user EXCEPT ![s] = user]
                /\ screen_stack' = [screen_stack EXCEPT ![s] = push_screen(@, "dashboard")]
                /\ UNCHANGED frame
           ELSE /\ frame' = [frame EXCEPT ![s].error_label = "Authentication failed"]
                /\ UNCHANGED <<current_user, screen_stack>>
    /\ pc' = [pc EXCEPT ![s] = "idle"]
    /\ UNCHANGED <<tables, selected_order_id, selected_request_id, ret>>

\* ============================================================= SpecLogin
\* A session at the login screen logging in, while another session creates
\* users (signup, the new-user screen) and deletes users (the profile screen
\* of an administrator).
MaxUsers == 3
Peer == CHOOSE s \in Sessions \ {Client} : \A other \in Sessions \ {Client} : s <= other

Emails == {"sara@example.com", "reza@example.com"}
Passwords == {"secret1", "secret2"}
Salts == {"salt1"}

AccountUser ==
    <<[name |-> "Admin", email |-> "admin@example.com", phone |-> "0910",
       role |-> "Admin", password_hash |-> hashpw("secret1", "salt1")],
      [name |-> "Sara", email |-> "sara@example.com", phone |-> "0912",
       role |-> "Customer", password_hash |-> hashpw("secret1", "salt1")]>>

InitLogin ==
    /\ User = AccountUser
    /\ Product = EmptyTable
    /\ Order = EmptyTable
    /\ OrderItem = EmptyTable
    /\ ServiceRequest = EmptyTable
    /\ InitSessions

Do_action_login(s) ==
    \E email \in Emails \cup {""}, password \in Passwords \cup {""} :
        action_login(s, email, password)

\* UserNewScreen.action_create_user / SignupScreen.action_signup reaching
\* create_user, with a password hashed under a fresh salt.
Call_create_user(s) ==
    \E email \in Emails, password \in Passwords, salt \in Salts :
        /\ pc[s] = "idle"
        /\ lastrowid(User) <= MaxUsers
        /\ create_user(s, [name |-> "Reza", email |-> email, phone |-> "0911",
                           role |-> "Customer"], hashpw(password, salt))
        /\ UNCHANGED <<Product, Order, OrderItem, ServiceRequest, screen, pc, frame>>

NextLogin ==
    \/ Do_action_login(Client)
    \/ action_login_authenticate_user(Client)
    \/ Call_create_user(Peer)
    \/ Call_delete_user(Peer)

SpecLogin == InitLogin /\ [][NextLogin]_vars

\* C17: a login yields a session identity only when the email exists and
\* the password verifies against that user's stored hash; an unknown email
\* and a wrong password for a known email give the same "invalid" outcome,
\* and then current_user stays unset and the login screen stays active.
C17_LoginOnlyWhenVerified ==
    [][/\ (current_user[Client] = NULL /\ current_user'[Client] # NULL) =>
             /\ current_user'[Client] \in DOMAIN User
             /\ User[current_user'[Client]].email = frame[Client].email
             /\ checkpw(frame[Client].password,
                        User[current_user'[Client]].password_hash)
       /\ (/\ pc[Client] = "idle" /\ active_screen(Client) = "login"
           /\ frame'[Client] # frame[Client]
           /\ frame'[Client].email # "" /\ frame'[Client].password # ""
           /\ \/ UsersByEmail(frame'[Client].email) = {}
              \/ \E u \in UsersByEmail(frame'[Client].email) :
                    ~checkpw(frame'[Client].password, User[u].password_hash)) =>
             /\ frame'[Client].error_label = "Invalid email or password"
             /\ pc'[Client] = "idle"
             /\ current_user'[Client] = NULL
             /\ active_screen(Client)' = "login"]_vars

\* ========================================================== SignupScreen
\* password must have at least this many characters
MinPasswordLength == 6

\* SignupScreen.action_signup up to the duplicate-email check, for the form
\* [name, email, phone, role, password, confirm_password] (name, email and
\* phone stripped): the message error_label gets, "" when every check passes.
\* UserCreate accepts what passes these checks (non-empty fields, a role of
\* the Select, a password of MinPasswordLength characters).
action_signup_message(form) ==
    IF form.name = "" \/ form.email = "" \/ form.phone = "" \/ form.password = ""
    THEN "Please fill in all required fields"
    ELSE IF form.password # form.confirm_password THEN "Passwords do not match"
    ELSE IF Len(form.password) < MinPasswordLength
    THEN "Password must be at least 6 characters"
    ELSE IF get_user_by_email(form.email) # Nothing THEN "Email already registered"
    ELSE ""

action_signup(s, form) ==
    /\ pc[s] = "idle"
    /\ active_screen(s) = "signup"
    /\ IF action_signup_message(form) = ""
       THEN /\ pc' = [pc EXCEPT ![s] = "action_signup"]
            /\ frame' = [frame EXCEPT ![s] =
                            [form |-> form,
                             error_label |-> IF "error_label" \in DOMAIN frame[s]
                                             THEN frame[s].error_label ELSE ""]]
       ELSE /\ frame' = [frame EXCEPT ![s] =
                            [form |-> form, error_label |-> action_signup_message(form)]]
            /\ UNCHANGED pc
    /\ UNCHANGED <<tables, screen, ret>>

\* action_signup from the hashing on: create_user under try/except; the new
\* user becomes app.current_user and the dashboard is pushed over the signup
\* screen, or error_label says "Failed to create account: ...".
action_signup_create_user(s) ==
    /\ pc[s] = "action_signup"
    /\ \E salt \in Salts :
          LET user == [name |-> frame[s].form.name, email |-> frame[s].form.email,
                       phone |-> frame[s].form.phone, role |-> frame[s].form.role]
              password_hash == hashpw(frame[s].form.password, salt)
          IN  /\ create_user(s, user, password_hash)
              /\ IF create_user_raises(user, password_hash)
                 THEN /\ frame' = [frame EXCEPT ![s].error_label = "Failed to create account"]
                      /\ UNCHANGED <<current_user, screen_stack>>
                 ELSE /\ current_user' = [current_user EXCEPT ![s] = lastrowid(User)]
                      /\ screen_stack' = [screen_stack EXCEPT ![s] = push_screen(@, "dashboard")]
                      /\ UNCHANGED frame
    /\ pc' = [pc EXCEPT ![s] = "idle"]
    /\ UNCHANGED <<Product, Order, OrderItem, ServiceRequest,
                   selected_order_id, selected_request_id>>

\* ============================================================ navigation
\* App.pop_screen, App.switch_screen on the stack of screen names.
pop_screen(stack) == SubSeq(stack, 1, Len(stack) - 1)
switch_screen(stack, name) == Append(pop_screen(stack), name)

\* while len(self.app.screen_stack) > 1: self.app.pop_screen()
pop_screens(stack) == SubSeq(stack, 1, 1)

\* A handler of session s that changes the screen stack only.
Navigate(s, stack) ==
    /\ pc[s] = "idle"
    /\ screen_stack' = [screen_stack EXCEPT ![s] = stack]
    /\ UNCHANGED <<tables, current_user, selected_order_id, selected_request_id,
                   pc, frame, ret>>

\* A logout handler of session s: app.current_user = None and the new stack.
LoggedOut(s, stack) ==
    /\ pc[s] = "idle"
    /\ current_user' = [current_user EXCEPT ![s] = NULL]
    /\ screen_stack' = [screen_stack EXCEPT ![s] = stack]
    /\ UNCHANGED <<tables, selected_order_id, selected_request_id, pc, frame, ret>>

\* LoginScreen.action_go_signup
action_go_signup(s) ==
    /\ active_screen(s) = "login"
    /\ Navigate(s, push_screen(screen_stack[s], "signup"))

\* action_go_back of the screens that have it: pop_screen.
action_go_back(s) ==
    /\ active_screen(s) \in {"signup", "workspace", "profile", "order_new",
                             "service_new", "product_new", "user_new"}
    /\ Navigate(s, pop_screen(screen_stack[s]))

\* The workspace opened over the dashboard.
push_workspace(s) ==
    /\ active_screen(s) = "dashboard"
    /\ Navigate(s, push_screen(screen_stack[s], "workspace"))

\* WorkspaceScreen.action_go_profile
action_go_profile(s) ==
    /\ active_screen(s) = "workspace"
    /\ Navigate(s, push_screen(screen_stack[s], "profile"))

\* WorkspaceScreen.action_new_item on the active tab: the screen it pushes,
\* "" where it returns without one (a customer on products, a specialist on
\* orders and services).
WorkspaceTabs == {"products", "orders", "services"}

action_new_item_screen(s, active_tab) ==
    IF active_tab = "products"
    THEN IF current_user[s] = NULL \/ current_user_role(s) = "Customer"
         THEN "" ELSE "product_new"
    ELSE IF current_user[s] # NULL /\ current_user_role(s) = "Specialist" THEN ""
    ELSE IF active_tab = "orders" THEN "order_new" ELSE "service_new"

action_new_item(s) ==
    \E active_tab \in WorkspaceTabs :
        /\ active_screen(s) = "workspace"
        /\ action_new_item_screen(s, active_tab) # ""
        /\ Navigate(s, push_screen(screen_stack[s], action_new_item_screen(s, active_tab)))

\* ProfileScreen.action_new_user: administrators only.
action_new_user(s) ==
    /\ active_screen(s) = "profile"
    /\ current_user[s] # NULL
    /\ current_user_role(s) = "Admin"
    /\ Navigate(s, push_screen(screen_stack[s], "user_new"))

\* CtrlMarketApp.logout: the stack is cleared and the login screen pushed.
logout(s) == LoggedOut(s, push_screen(<<>>, "login"))

\* DashboardScreen.action_logout: one pop_screen.
DashboardScreen_action_logout(s) ==
    /\ active_screen(s) = "dashboard"
    /\ LoggedOut(s, pop_screen(screen_stack[s]))

\* WorkspaceScreen, ProfileScreen, ServiceNewScreen .action_logout: app.logout()
WorkspaceScreen_action_logout(s) ==
    /\ active_screen(s) = "workspace"
    /\ logout(s)

ProfileScreen_action_logout(s) ==
    /\ active_screen(s) = "profile"
    /\ logout(s)

ServiceNewScreen_action_logout(s) ==
    /\ active_screen(s) = "service_new"
    /\ logout(s)

\* OrderNewScreen.action_logout: pops down to the first screen of the stack.
OrderNewScreen_action_logout(s) ==
    /\ active_screen(s) = "order_new"
    /\ LoggedOut(s, pop_screens(screen_stack[s]))

\* ProductNewScreen, UserNewScreen .action_logout: pop down to the first
\* screen, then switch_screen("login").
ProductNewScreen_action_logout(s) ==
    /\ active_screen(s) = "product_new"
    /\ LoggedOut(s, switch_screen(pop_screens(screen_stack[s]), "login"))

UserNewScreen_action_logout(s) ==
    /\ active_screen(s) = "user_new"
    /\ LoggedOut(s, switch_screen(pop_screens(screen_stack[s]), "login"))

\* ============================================================ SpecLogout
\* One session from the start of the app: logging in or signing up, moving
\* between the screens and logging out of each of them.
SignupForms ==
    [name : {"Reza"}, email : Emails \cup {""}, phone : {"0911"}, role : Roles,
     password : {"secret1", "abc"}, confirm_password : {"secret1", "abc"}]

Do_action_signup(s) ==
    \E form \in SignupForms :
        /\ lastrowid(User) <= MaxUsers
        /\ action_signup(s, form)

NextLogout ==
    \/ Do_action_login(Client)
    \/ action_login_authenticate_user(Client)
    \/ action_go_signup(Client)
    \/ Do_action_signup(Client)
    \/ action_signup_create_user(Client)
    \/ action_go_back(Client)
    \/ push_workspace(Client)
    \/ action_go_profile(Client)
    \/ action_new_item(Client)
    \/ action_new_user(Client)
    \/ DashboardScreen_action_logout(Client)
    \/ WorkspaceScreen_action_logout(Client)
    \/ ProfileScreen_action_logout(Client)
    \/ ServiceNewScreen_action_logout(Client)
    \/ OrderNewScreen_action_logout(Client)
    \/ ProductNewScreen_action_logout(Client)
    \/ UserNewScreen_action_logout(Client)

SpecLogout == InitLogin /\ [][NextLogout]_vars

\* C18: current_user is None when the app starts, and a logout taken from a
\* screen reachable after login or signup leaves current_user None and the
\* login screen active.
C18_LogoutShowsLogin ==
    /\ current_user[Client] = NULL
    /\ [][(current_user[Client] # NULL /\ current_user'[Client] = NULL) =>
             active_screen(Client)' = "login"]_vars

\* ========================================================= init_database
\* The seed dataset: an administrator, a specialist and a customer, a product,
\* a sample order of the customer and a sample service request assigned to
\* the specialist.
SeedUserRows ==
    <<[name |-> "Admin", email |-> "admin@example.com", phone |-> "0910",
       role |-> "Admin", password_hash |-> hashpw("secret1", "salt1")],
      [name |-> "Reza", email |-> "reza@example.com", phone |-> "0911",
       role |-> "Specialist", password_hash |-> hashpw("secret1", "salt1")],
      [name |-> "Sara", email |-> "sara@example.com", phone |-> "0912",
       role |-> "Customer", password_hash |-> hashpw("secret1", "salt1")]>>

SeedCustomer == CHOOSE u \in DOMAIN SeedUserRows : SeedUserRows[u].role = "Customer"
SeedSpecialist == CHOOSE u \in DOMAIN SeedUserRows : SeedUserRows[u].role = "Specialist"

SeedProduct == <<[name |-> "P1", category |-> "Equipment", price |-> MaxPrice]>>

SeedOrder ==
    <<[total_price |-> MaxPrice, status |-> "Pending", user_id |-> SeedCustomer]>>

SeedOrderItem ==
    <<[order_id |-> lastrowid(EmptyTable), product_id |-> lastrowid(EmptyTable),
       quantity |-> 1, unit_price |-> MaxPrice]>>

SeedServiceRequest ==
    <<[create_service_request_row("Support", SeedCustomer)
          EXCEPT !.specialist_id = SeedSpecialist]>>

init_database_initialized_mutant == FALSE

\* The database file exists, has a User table and SELECT COUNT(*) FROM User
\* is above 0: "Database already initialized".
init_database_initialized == DOMAIN User # {}

\* The schema script and then the seed script, each in its own connection.
init_database_db(table, seed) == IF init_database_initialized THEN table ELSE seed

init_database_returns ==
    IF init_database_initialized
    THEN Outcome("init_database", "False", Nothing)
    ELSE Outcome("init_database", "True", Nothing)

init_database(s) ==
    /\ User' = init_database_db(User, SeedUserRows)
    /\ Product' = init_database_db(Product, SeedProduct)
    /\ Order' = init_database_db(Order, SeedOrder)
    /\ OrderItem' = init_database_db(OrderItem, SeedOrderItem)
    /\ ServiceRequest' = init_database_db(ServiceRequest, SeedServiceRequest)
    /\ ret' = [ret EXCEPT ![s] = init_database_returns]

\* ============================================================== SpecInit
\* A client starting on a database file again and again, from before its
\* first initialization, while another creates and deletes users.
InitInit ==
    /\ User = EmptyTable
    /\ Product = EmptyTable
    /\ Order = EmptyTable
    /\ OrderItem = EmptyTable
    /\ ServiceRequest = EmptyTable
    /\ InitSessions

Call_init_database(s) ==
    /\ pc[s] = "idle"
    /\ init_database(s)
    /\ UNCHANGED <<screen, pc, frame>>

NextInit ==
    \/ Call_init_database(Client)
    \/ Call_create_user(Peer)
    \/ Call_delete_user(Peer)

SpecInit == InitInit /\ [][NextInit]_vars

\* C19: init_database loads the seed data and returns True only when no User
\* row exists; on a store that holds a User row it returns False and changes
\* no data, so repeated calls after the first leave the store as it was.
C19_InitDatabaseOnce ==
    [][\A s \in Sessions :
          (ret'[s].op = "init_database" /\ ret'[s] # ret[s]) =>
             IF DOMAIN User = {}
             THEN /\ ret'[s].kind = "True"
                  /\ tables' = <<SeedUserRows, SeedProduct, SeedOrder, SeedOrderItem,
                                 SeedServiceRequest>>
                  /\ DOMAIN User' # {}
             ELSE /\ ret'[s].kind = "False"
                  /\ tables' = tables]_vars

\* A later call, on the seeded store after a seeded user was deleted from
\* it, has returned False to a client and the deleted user is not back.
C19_Witness ==
    /\ ret[Client].op = "init_database"
    /\ ret[Client].kind = "False"
    /\ Product = SeedProduct
    /\ DOMAIN User # {}
    /\ \E u \in DOMAIN SeedUserRows : u \notin DOMAIN User

\* ============================================================ SpecSignup
\* Two sessions at the signup screen signing up at once, and the same two
\* calling create_user (the new-user screen) and update_user with an email.
SignupRaceForms ==
    [name : {"Reza"}, email : Emails, phone : {"0911"}, role : {"Customer"},
     password : {"secret1"}, confirm_password : {"secret1"}]

Do_action_signup_race(s) ==
    \E form \in SignupRaceForms :
        /\ lastrowid(User) <= MaxUsers
        /\ action_signup(s, form)

Call_update_user_email(s) ==
    \E user_id \in UserIdInputs, email \in Emails :
        /\ pc[s] = "idle"
        /\ update_user(s, user_id, [email |-> email])
        /\ UNCHANGED <<Product, Order, OrderItem, ServiceRequest, screen, pc, frame>>

NextSignup ==
    \E s \in {Client, Peer} :
        \/ action_go_signup(s)
        \/ Do_action_signup_race(s)
        \/ action_signup_create_user(s)
        \/ Call_create_user(s)
        \/ Call_update_user_email(s)

SpecSignup == InitLogin /\ [][NextSignup]_vars

UniqueEmails ==
    \A u, v \in DOMAIN User : u # v => User[u].email # User[v].email

\* C20: no two users ever share an email; a signup, create_user or
\* update_user that would store an email another user holds fails and leaves
\* the stored users as they were, two simultaneous signups included.
C20_EmailUnique ==
    /\ UniqueEmails
    /\ [][/\ UniqueEmails'
          /\ \A s \in {Client, Peer} :
                /\ (pc[s] = "action_signup" /\ pc'[s] = "idle"
                    /\ UsersByEmail(frame[s].form.email) # {}) =>
                      /\ User' = User
                      /\ ret'[s].kind = "raise"
                      /\ current_user'[s] = current_user[s]
                      /\ frame'[s].error_label = "Failed to create account"
                /\ (ret'[s] # ret[s] /\ ret'[s].op = "create_user") =>
                      IF ret'[s].kind = "raise" THEN User' = User
                      ELSE /\ UsersByEmail(ret'[s].val.email) = {}
                           /\ User' = Insert(User, ret'[s].val.user_id,
                                             User'[ret'[s].val.user_id])
                /\ (ret'[s] # ret[s] /\ ret'[s].op = "update_user"
                    /\ ret'[s].kind = "raise") => User' = User]_vars

\* Two sessions signed up with one email at once: the first holds the new
\* account, the second was refused by the insert and is not logged in.
C20_Witness ==
    /\ current_user[Client] # NULL
    /\ current_user[Peer] = NULL
    /\ pc[Peer] = "idle"
    /\ "form" \in DOMAIN frame[Peer]
    /\ frame[Peer].error_label = "Failed to create account"
    /\ ret[Peer].kind = "raise"
    /\ User[current_user[Client]].email = frame[Peer].form.email
    /\ Cardinality(UsersByEmail(frame[Peer].form.email)) = 1

\* ========================================================= OrderNewScreen
\* _setup_customer_selection: the options of the customer Select.  A customer
\* gets the one option "(You)", preselected and hidden; everybody else the
\* customers of list_customers().
customer_select_options(s) ==
    IF current_user[s] # NULL /\ current_user_role(s) = "Customer"
    THEN {current_user[s]}
    ELSE list_customers

\* The carts used, as action_add_item builds them: a line of quantity >= 1 of
\* a product that was stored when it was added.
CartInputs == {items \in ItemListInputs : Len(items) = 1}

\* OrderNewScreen.action_create_order, entering create_order with the value
\* of the customer Select and the cart (neither may be empty).
action_create_order(s) ==
    \E customer_value \in customer_select_options(s), cart \in CartInputs :
        /\ active_screen(s) = "order_new"
        /\ Cardinality(DOMAIN Order) < MaxOrders
        /\ create_order_enter(s, [user_id |-> customer_value, items |-> cart])

\* action_create_order when create_order is through its loop:
\* `if order: self.app.pop_screen()`, `except Exception: pass`.
action_create_order_create_order(s) ==
    /\ create_order_commit(s)
    /\ screen_stack' = [screen_stack EXCEPT ![s] =
          IF ret'[s].kind = "value" THEN pop_screen(@) ELSE @]
    /\ UNCHANGED <<current_user, selected_order_id, selected_request_id>>

\* action_cancel_item, action_complete_item and the cursor of the orders tab,
\* which the workspace handles while it is the active screen.
Workspace_on_orders_row_highlighted(s) ==
    /\ active_screen(s) = "workspace"
    /\ on_orders_row_highlighted(s)

Workspace_handle_order_cancel(s) ==
    /\ active_screen(s) = "workspace"
    /\ _handle_order_cancel(s)

Workspace_handle_order_complete(s) ==
    /\ active_screen(s) = "workspace"
    /\ _handle_order_complete(s)

\* ==================================================== SpecCustomerOrders
\* A customer's session and another user's session, each on the workspace
\* (selecting, cancelling and completing orders) or on the new-order screen
\* opened from it (creating an order, which leads back to the workspace).
OrderNewStack == push_screen(WorkspaceStack, "order_new")

InitCustomerOrders ==
    /\ User = Restrict(SeedUser, DOMAIN SeedUser \
                       {CHOOSE u \in DOMAIN SeedUser : SeedUser[u].role = "Specialist"})
    /\ Product = <<[name |-> "P1", category |-> "Equipment", price |-> MaxPrice]>>
    /\ ServiceRequest = EmptyTable
    /\ \E customer \in list_customers :
          /\ \A other \in list_customers : customer <= other
          /\ \E peer \in DOMAIN User \ {customer} :
                current_user = [s \in Sessions |->
                                   IF s = Client THEN customer
                                   ELSE IF s = Peer THEN peer ELSE NULL]
    /\ \/ Order = EmptyTable /\ OrderItem = EmptyTable
       \/ \E owner \in list_customers \ {current_user[Client]} :
             /\ Order = <<[total_price |-> MaxPrice, status |-> "Pending",
                           user_id |-> owner]>>
             /\ OrderItem = <<[order_id |-> lastrowid(EmptyTable),
                               product_id |-> lastrowid(EmptyTable),
                               quantity |-> 1, unit_price |-> MaxPrice]>>
    /\ selected_order_id = [s \in Sessions |-> NULL]
    /\ selected_request_id = [s \in Sessions |-> NULL]
    /\ \E stacks \in [{Client, Peer} -> {WorkspaceStack, OrderNewStack}] :
          screen_stack = [s \in Sessions |->
                             IF s \in DOMAIN stacks THEN stacks[s] ELSE StartStack]
    /\ pc = [s \in Sessions |-> "idle"]
    /\ frame = [s \in Sessions |-> EmptyFrame]
    /\ ret = [s \in Sessions |-> NoOutcome]

NextCustomerOrders ==
    \E s \in {Client, Peer} :
        \/ action_create_order(s)
        \/ create_order_loop(s)
        \/ action_create_order_create_order(s)
        \/ Workspace_on_orders_row_highlighted(s)
        \/ Workspace_handle_order_cancel(s)
        \/ _handle_order_cancel_cancel_order(s)
        \/ Workspace_handle_order_complete(s)
        \/ _handle_order_complete_update_order_status(s)

SpecCustomerOrders == InitCustomerOrders /\ [][NextCustomerOrders]_vars

\* C21: in a customer's session the orders list holds only the customer's own
\* orders, an order the session creates is the customer's own, and a cancel
\* of the session changes an order's status only when the order is the
\* customer's own and Pending.
C21_CustomerOwnOrdersOnly ==
    [][/\ \A o \in _load_orders(Client) : Order[o].user_id = current_user[Client]
       /\ (pc[Client] = "create_order_loop" /\ pc'[Client] = "idle"
           /\ DOMAIN Order' # DOMAIN Order) =>
             \A o \in DOMAIN Order' \ DOMAIN Order :
                Order'[o].user_id = current_user[Client]
       /\ (pc[Client] = "_handle_order_cancel" /\ pc'[Client] = "idle") =>
             \A o \in DOMAIN Order :
                Order'[o] # Order[o] =>
                   /\ Order[o].user_id = current_user[Client]
                   /\ Order[o].status = "Pending"
                   /\ Order'[o] = [Order[o] EXCEPT !.status = "Cancelled"]
       /\ (pc[Client] = "idle" /\ pc'[Client] # pc[Client]) => Order' = Order]_vars

\* The customer has created an order and cancelled it while a Pending order
\* of another customer is stored.
C21_Witness ==
    /\ ret[Client] = Outcome("cancel_order", "True", Nothing)
    /\ \E o \in DOMAIN Order :
          /\ Order[o].user_id = current_user[Client]
          /\ Order[o].status = "Cancelled"
    /\ \E o \in DOMAIN Order :
          /\ Order[o].user_id # current_user[Client]
          /\ Order[o].status = "Pending"

\* ================================================== SpecSpecialistOrders
\* A specialist's session and a customer's session on the workspace, with
\* orders of the customers stored: opening whatever action_new_item opens and
\* going back, creating orders, selecting, cancelling and completing them.
InitSpecialistOrders ==
    /\ User = SeedUser
    /\ Product = <<[name |-> "P1", category |-> "Equipment", price |-> MaxPrice]>>
    /\ OrderItem = EmptyTable
    /\ ServiceRequest = EmptyTable
    /\ \E n \in 1..(MaxOrders - 1) :
          \E owners \in [1..n -> list_customers], statuses \in [1..n -> OrderStatuses] :
             Order = [o \in 1..n |-> [total_price |-> 0, status |-> statuses[o],
                                      user_id |-> owners[o]]]
    /\ \E specialist \in list_specialists, customer \in list_customers :
          current_user = [s \in Sessions |->
                             IF s = Client THEN specialist
                             ELSE IF s = Peer THEN customer ELSE NULL]
    /\ selected_order_id = [s \in Sessions |-> NULL]
    /\ selected_request_id = [s \in Sessions |-> NULL]
    /\ screen_stack = [s \in Sessions |->
                          IF s \in {Client, Peer} THEN WorkspaceStack ELSE StartStack]
    /\ pc = [s \in Sessions |-> "idle"]
    /\ frame = [s \in Sessions |-> EmptyFrame]
    /\ ret = [s \in Sessions |-> NoOutcome]

NextSpecialistOrders ==
    \E s \in {Client, Peer} :
        \/ action_new_item(s)
        \/ action_go_back(s)
        \/ action_create_order(s)
        \/ create_order_loop(s)
        \/ action_create_order_create_order(s)
        \/ Workspace_on_orders_row_highlighted(s)
        \/ Workspace_handle_order_cancel(s)
        \/ _handle_order_cancel_cancel_order(s)
        \/ Workspace_handle_order_complete(s)
        \/ _handle_order_complete_update_order_status(s)

SpecSpecialistOrders == InitSpecialistOrders /\ [][NextSpecialistOrders]_vars

\* C22: in a specialist's session no action creates an order and no action
\* cancels one: no step of the specialist's session (the customer's session
\* standing still) stores a new order or sets an order to Cancelled.
C22_SpecialistNoCreateNoCancel ==
    [][pc'[Peer] = pc[Peer] =>
          /\ DOMAIN Order' = DOMAIN Order
          /\ \A o \in DOMAIN Order :
                Order'[o].status = "Cancelled" => Order[o].status = "Cancelled"]_vars

\* C23: an order goes from Pending to Completed only by the complete action
\* of a session whose user is a specialist or an administrator, and no step
\* of a customer's session sets an order to Completed.
C23_CompleteBySpecialistOrAdmin ==
    [][/\ \A o \in DOMAIN Order :
             (Order[o].status = "Pending" /\ Order'[o].status = "Completed") =>
                \E s \in {Client, Peer} :
                   /\ pc[s] = "_handle_order_complete" /\ pc'[s] = "idle"
                   /\ frame[s].order_id = o
                   /\ current_user_role(s) \in {"Specialist", "Admin"}
       /\ \A s \in {Client, Peer} :
             (current_user_role(s) = "Customer" /\ pc'[s] # pc[s]) =>
                \A o \in DOMAIN Order :
                   Order'[o].status = "Completed" => Order[o].status = "Completed"]_vars

\* A specialist has completed an order of the customer, which the customer's
\* session has selected.
C23_Witness ==
    /\ current_user_role(Peer) = "Specialist"
    /\ ret[Peer].op = "update_order_status"
    /\ ret[Peer].kind = "value"
    /\ selected_order_id[Client] # NULL
    /\ selected_order_id[Client] \in DOMAIN Order
    /\ Order[selected_order_id[Client]].status = "Completed"
    /\ Order[selected_order_id[Client]].user_id = current_user[Client]
\* C24: a complete or cancel action of a Specialist session changes the status
\* of a request only if, at the update, the request's specialist_id is the
\* session's user; and no step of a Specialist session adds a request.
C24_SpecialistOnlyAssignedRequests ==
    [][\A s \in Sessions :
          current_user_role(s) = "Specialist" =>
              /\ \A r \in DOMAIN ServiceRequest :
                    (UpdatesRequest(s, r)
                       /\ ServiceRequest'[r].status # ServiceRequest[r].status) =>
                          ServiceRequest[r].specialist_id = current_user[s]
              /\ pc'[s] # pc[s] => DOMAIN ServiceRequest' = DOMAIN ServiceRequest]_vars

\* ----------------------------------------------------------- create_product
\* INSERT INTO Product (name, category, price) VALUES (?, ?, ?)
create_product_row(product) ==
    [name |-> product.name, category |-> product.category, price |-> product.price]

\* The INSERT raises sqlite3.IntegrityError when the row breaks the schema.
create_product_raises(product) == ~ProductRowOK(create_product_row(product))

create_product_db(product) ==
    get_db_connection(create_product_raises(product), Product,
                      Insert(Product, lastrowid(Product), create_product_row(product)))

\* Product(product_id=cursor.lastrowid, name=..., category=..., price=...)
create_product_returns(product) ==
    IF create_product_raises(product)
    THEN Outcome("create_product", "raise", [exc |-> "IntegrityError"])
    ELSE Outcome("create_product", "value",
                 [product_id |-> lastrowid(Product), name |-> product.name,
                  category |-> product.category, price |-> product.price])

create_product(s, product) ==
    /\ Product' = create_product_db(product)
    /\ ret' = [ret EXCEPT ![s] = create_product_returns(product)]

\* ---------------------------------------------------------- product screens
\* While a ProductEditScreen or a ConfirmDialog is the active screen of a
\* session, frame holds the fields of that screen instance.

\* The values the name, category and price inputs of the product forms hold
\* when the action gets past its checks: nothing blank, price >= 0.
ProductFormInputs == [name : {"P3"}, category : {"Parts"}, price : Prices]

\* WorkspaceScreen.selected_product_id: the id of a row of the products table
\* as last loaded, a product stored or one deleted since.
SelectedProductInputs == DOMAIN Product \cup {NoSuchId}

action_create_product_permitted_mutant(s) == current_user[s] # NULL

\* `if not current_user or current_user.role == "Customer": return`
action_create_product_permitted(s) ==
    current_user[s] # NULL /\ current_user_role(s) # "Customer"

\* The same check in action_edit_item and action_delete_item.
action_edit_item_permitted(s) ==
    current_user[s] # NULL /\ current_user_role(s) # "Customer"

\* `if not current_user or current_user.role not in ("Specialist", "Admin")`
action_save_product_permitted(s) ==
    current_user[s] # NULL /\ current_user_role(s) \in {"Specialist", "Admin"}

\* ProductNewScreen.action_create_product: create_product, then pop_screen;
\* an exception of create_product is swallowed and the screen stays.
action_create_product(s) ==
    /\ pc[s] = "idle"
    /\ active_screen(s) = "product_new"
    /\ lastrowid(Product) <= MaxRows
    /\ \E form \in ProductFormInputs :
          IF action_create_product_permitted(s)
          THEN /\ create_product(s, form)
               /\ screen_stack' = [screen_stack EXCEPT ![s] =
                     IF ret'[s].kind = "value" THEN pop_screen(@) ELSE @]
          ELSE UNCHANGED <<Product, ret, screen_stack>>
    /\ UNCHANGED <<User, Order, OrderItem, ServiceRequest, current_user,
                   selected_order_id, selected_request_id, pc, frame>>

\* ProductEditScreen(product_id) once mounted: self.product is loaded for a
\* specialist or administrator only.
ProductEditScreen_on_mount(s, product_id) ==
    [product_id |-> product_id,
     product |-> IF action_save_product_permitted(s)
                 THEN get_product_by_id(product_id) ELSE Nothing]

\* WorkspaceScreen.action_edit_item on the products tab.
action_edit_item(s) ==
    /\ pc[s] = "idle"
    /\ active_screen(s) = "workspace"
    /\ \E product_id \in SelectedProductInputs :
          IF action_edit_item_permitted(s)
          THEN /\ screen_stack' = [screen_stack EXCEPT ![s] = push_screen(@, "product_edit")]
               /\ frame' = [frame EXCEPT ![s] = ProductEditScreen_on_mount(s, product_id)]
          ELSE UNCHANGED <<screen_stack, frame>>
    /\ UNCHANGED <<tables, current_user, selected_order_id, selected_request_id, pc, ret>>

\* ProductUpdate(name=name if name != self.product.name else None, ...)
action_save_product_update_data(form, product) ==
    Restrict(form, {f \in {"name", "category", "price"} : form[f] # product[f]})

\* ProductEditScreen.action_save_product: update_product, and pop_screen when
\* it returned a product.
action_save_product(s) ==
    /\ pc[s] = "idle"
    /\ active_screen(s) = "product_edit"
    /\ \E form \in ProductFormInputs :
          IF action_save_product_permitted(s) /\ frame[s].product # Nothing
          THEN /\ update_product(s, frame[s].product_id,
                                 action_save_product_update_data(form, frame[s].product))
               /\ IF ret'[s].kind = "value"
                  THEN /\ screen_stack' = [screen_stack EXCEPT ![s] = pop_screen(@)]
                       /\ frame' = [frame EXCEPT ![s] = EmptyFrame]
                  ELSE UNCHANGED <<screen_stack, frame>>
          ELSE UNCHANGED <<Product, ret, screen_stack, frame>>
    /\ UNCHANGED <<User, Order, OrderItem, ServiceRequest, current_user,
                   selected_order_id, selected_request_id, pc>>

\* ProductEditScreen.action_go_back
ProductEditScreen_action_go_back(s) ==
    /\ pc[s] = "idle"
    /\ active_screen(s) = "product_edit"
    /\ screen_stack' = [screen_stack EXCEPT ![s] = pop_screen(@)]
    /\ frame' = [frame EXCEPT ![s] = EmptyFrame]
    /\ UNCHANGED <<tables, current_user, selected_order_id, selected_request_id, pc, ret>>

\* WorkspaceScreen.action_delete_item on the products tab: the ConfirmDialog is
\* pushed for a product that get_product_by_id found.
action_delete_item(s) ==
    /\ pc[s] = "idle"
    /\ active_screen(s) = "workspace"
    /\ \E product_id \in SelectedProductInputs :
          IF action_edit_item_permitted(s) /\ get_product_by_id(product_id) # Nothing
          THEN /\ screen_stack' = [screen_stack EXCEPT ![s] = push_screen(@, "ConfirmDialog")]
               /\ frame' = [frame EXCEPT ![s] = [product_id |-> product_id]]
          ELSE UNCHANGED <<screen_stack, frame>>
    /\ UNCHANGED <<tables, current_user, selected_order_id, selected_request_id, pc, ret>>

\* ConfirmDialog.on_button_pressed, "Yes": confirm_delete(True) calls
\* delete_product, then the dialog is dismissed.
confirm_delete(s) ==
    /\ pc[s] = "idle"
    /\ active_screen(s) = "ConfirmDialog"
    /\ delete_product(s, frame[s].product_id)
    /\ screen_stack' = [screen_stack EXCEPT ![s] = pop_screen(@)]
    /\ frame' = [frame EXCEPT ![s] = EmptyFrame]
    /\ UNCHANGED <<User, Order, OrderItem, ServiceRequest, current_user,
                   selected_order_id, selected_request_id, pc>>

\* ConfirmDialog.on_button_pressed, "No": confirm_delete(False).
ConfirmDialog_dismiss(s) ==
    /\ pc[s] = "idle"
    /\ active_screen(s) = "ConfirmDialog"
    /\ screen_stack' = [screen_stack EXCEPT ![s] = pop_screen(@)]
    /\ frame' = [frame EXCEPT ![s] = EmptyFrame]
    /\ UNCHANGED <<tables, current_user, selected_order_id, selected_request_id, pc, ret>>

\* ============================================================ SpecProducts
\* The session of a customer or of nobody and the session of a specialist or
\* an administrator, each on the workspace or on one of the product screens
\* opened over it, against a store with one product that an order item may
\* reference.  (The workspace opens no product form for a customer; the forms
\* themselves provide for such a user, see their on_mount.)
ProductNewStack == push_screen(WorkspaceStack, "product_new")
ProductEditStack == push_screen(WorkspaceStack, "product_edit")

ProductsUsers ==
    {CHOOSE u \in DOMAIN SeedUser : SeedUser[u].role = role : role \in Roles}

InitProducts ==
    /\ User = Restrict(SeedUser, ProductsUsers)
    /\ Product = SeedProduct
    /\ \E referenced \in BOOLEAN :
          IF referenced
          THEN /\ Order = Insert(EmptyTable, 1,
                             [user_id |-> CHOOSE u \in ProductsUsers : SeedUser[u].role = "Customer",
                              status |-> "Pending", total_price |-> MaxPrice])
               /\ OrderItem = Insert(EmptyTable, 1,
                             [order_id |-> 1, product_id |-> 1, quantity |-> 1,
                              unit_price |-> MaxPrice])
          ELSE Order = EmptyTable /\ OrderItem = EmptyTable
    /\ ServiceRequest = EmptyTable
    /\ \E user \in list_customers \cup {NULL}, other \in DOMAIN User \ list_customers :
          current_user = [s \in Sessions |->
                             IF s = Client THEN user ELSE IF s = Peer THEN other ELSE NULL]
    /\ selected_order_id = [s \in Sessions |-> NULL]
    /\ selected_request_id = [s \in Sessions |-> NULL]
    /\ \E stacks \in [Sessions -> {StartStack, WorkspaceStack, ProductNewStack,
                                    ProductEditStack}] :
          /\ \A s \in Sessions : stacks[s] = StartStack <=> s \notin {Client, Peer}
          /\ screen_stack = stacks
          /\ frame = [s \in Sessions |->
                        IF stacks[s] = ProductEditStack
                        THEN ProductEditScreen_on_mount(s, 1) ELSE EmptyFrame]
    /\ pc = [s \in Sessions |-> "idle"]
    /\ ret = [s \in Sessions |-> NoOutcome]

NextProducts ==
    \E s \in {Client, Peer} :
        \/ action_new_item(s)
        \/ action_go_back(s)
        \/ action_create_product(s)
        \/ action_edit_item(s)
        \/ action_save_product(s)
        \/ ProductEditScreen_action_go_back(s)
        \/ action_delete_item(s)
        \/ confirm_delete(s)
        \/ ConfirmDialog_dismiss(s)

SpecProducts == InitProducts /\ [][NextProducts]_vars

\* A session of a customer or of nobody.
NoProductRights(s) == current_user[s] = NULL \/ current_user_role(s) = "Customer"

Call_assign_specialist_customer(s) ==
    \E request_id \in DOMAIN ServiceRequest :
        /\ pc[s] = "idle"
        /\ assign_specialist(s, request_id, ServiceRequest[request_id].customer_id)
        /\ UNCHANGED <<User, Product, Order, OrderItem, screen, pc, frame>>

NextAssignCustomer ==
    \/ Call_create_service_request(Client)
    \/ Call_assign_specialist_customer(Client)
    \/ Call_assign_specialist(Peer)
    \/ Call_update_service_request_status(Peer)

SpecAssignCustomer == InitService /\ [][NextAssignCustomer]_vars

\* C26: every stored request has customer_id different from specialist_id, and
\* an assign_specialist call whose specialist is the request's customer returns
\* no request and leaves the stored requests as they were, an unassigned
\* request unassigned.
C26_CustomerNotSpecialist ==
    /\ [](\A r \in DOMAIN ServiceRequest :
             ServiceRequest[r].customer_id # ServiceRequest[r].specialist_id)
    /\ [][\A r \in DOMAIN ServiceRequest :
             (ret'[Client].op = "assign_specialist"
                /\ assign_specialist(Client, r, ServiceRequest[r].customer_id)) =>
                   /\ ret'[Client].kind # "value"
                   /\ ServiceRequest' = ServiceRequest
                   /\ ServiceRequest[r].specialist_id = NULL =>
                         ServiceRequest'[r].specialist_id = NULL]_vars

\* The call with the request's customer has raised on a request that is still
\* unassigned and 'Pending', while another request was assigned.
C26_Witness ==
    /\ ret[Client].op = "assign_specialist"
    /\ ret[Client].kind = "raise"
    /\ \E r, q \in DOMAIN ServiceRequest :
          /\ ServiceRequest[r].specialist_id = NULL
          /\ ServiceRequest[r].status = "Pending"
          /\ ServiceRequest[q].specialist_id # NULL

\* ------------------------------------------------------------ request_date
\* An instant of the clock, and the offset of the local time zone from UTC in
\* the clock's seconds.
Instants == [second : {0, 1}, microsecond : {0, 1}]
UtcOffsets == {0, 1}

\* SQLite's CURRENT_TIMESTAMP: 'YYYY-MM-DD HH:MM:SS', UTC, whole seconds.
CURRENT_TIMESTAMP(now) == [second |-> now.second, microsecond |-> 0]

\* datetime.now(): the local time, naive, with microseconds.
datetime_now(now, utcoffset) ==
    [second |-> now.second + utcoffset, microsecond |-> now.microsecond]

\* create_service_request with the request_date column and field: the INSERT
\* stores CURRENT_TIMESTAMP, the entity returned carries datetime.now().
create_service_request_dated_row(service_type, customer_id, now) ==
    [service_type |-> service_type, request_date |-> CURRENT_TIMESTAMP(now),
     status |-> "Pending", customer_id |-> customer_id, specialist_id |-> NULL]

create_service_request_dated_raises(service_type, customer_id, now) ==
    ~ServiceRequestRowOK(create_service_request_dated_row(service_type, customer_id, now))

create_service_request_dated_returns(service_type, customer_id, now, utcoffset) ==
    IF create_service_request_dated_raises(service_type, customer_id, now)
    THEN Outcome("create_service_request", "raise", [exc |-> "IntegrityError"])
    ELSE Outcome("create_service_request", "value",
                 [request_id |-> lastrowid(ServiceRequest), service_type |-> service_type,
                  request_date |-> datetime_now(now, utcoffset), status |-> "Pending",
                  customer_id |-> customer_id, specialist_id |-> NULL])

create_service_request_dated(s, service_type, customer_id, now, utcoffset) ==
    /\ ServiceRequest' =
          get_db_connection(create_service_request_dated_raises(service_type, customer_id, now),
                            ServiceRequest,
                            Insert(ServiceRequest, lastrowid(ServiceRequest),
                                   create_service_request_dated_row(service_type, customer_id, now)))
    /\ ret' = [ret EXCEPT ![s] =
                 create_service_request_dated_returns(service_type, customer_id, now, utcoffset)]

\* get_service_request_by_id with request_date=row["request_date"]; the
\* customer_name and specialist_name it adds are fields the created entity
\* does not have.
get_service_request_by_id_dated(request_id) ==
    IF request_id \in DOMAIN ServiceRequest
    THEN [request_id |-> request_id,
          service_type |-> ServiceRequest[request_id].service_type,
          request_date |-> ServiceRequest[request_id].request_date,
          status |-> ServiceRequest[request_id].status,
          customer_id |-> ServiceRequest[request_id].customer_id,
          specialist_id |-> ServiceRequest[request_id].specialist_id]
    ELSE Nothing

\* =========================================================== SpecRoundTrip
\* A client creates users, products, orders and service requests, and after a
\* create that returned an entity calls the get-by-id of that entity with the
\* id assigned; frame keeps the entity created and the entity got.
InitRoundTrip ==
    /\ User = AccountUser
    /\ Product = SeedProduct
    /\ Order = EmptyTable
    /\ OrderItem = EmptyTable
    /\ ServiceRequest = EmptyTable
    /\ InitSessions

Call_create_product(s) ==
    \E product \in ProductFormInputs :
        /\ pc[s] = "idle"
        /\ lastrowid(Product) <= MaxRows
        /\ create_product(s, product)
        /\ UNCHANGED <<User, Order, OrderItem, ServiceRequest, screen, pc, frame>>

Call_create_service_request_dated(s) ==
    \E service_type \in ServiceTypeInputs, customer_id \in CustomerIdInputs,
       now \in Instants, utcoffset \in UtcOffsets :
        /\ pc[s] = "idle"
        /\ Cardinality(DOMAIN ServiceRequest) < MaxRequests
        /\ create_service_request_dated(s, service_type, customer_id, now, utcoffset)
        /\ UNCHANGED <<User, Product, Order, OrderItem, screen, pc, frame>>

\* The get-by-id that belongs to the create whose outcome is `created`.
GetById(created) ==
    IF created.op = "create_user" THEN get_user_by_id(created.val.user_id)
    ELSE IF created.op = "create_product" THEN get_product_by_id(created.val.product_id)
    ELSE IF created.op = "create_order" THEN get_order_by_id(created.val.order_id)
    ELSE get_service_request_by_id_dated(created.val.request_id)

Call_get_by_id(s) ==
    /\ pc[s] = "idle"
    /\ ret[s].kind = "value"
    /\ ret[s].op \in {"create_user", "create_product", "create_order",
                      "create_service_request"}
    /\ frame' = [frame EXCEPT ![s] =
                    [op |-> ret[s].op, created |-> ret[s].val, got |-> GetById(ret[s])]]
    /\ UNCHANGED <<tables, screen, pc, ret>>

NextRoundTrip ==
    \/ Call_create_user(Client)
    \/ Call_create_product(Client)
    \/ Call_create_order(Client)
    \/ create_order_loop(Client)
    \/ create_order_insert(Client)
    \/ Call_create_service_request_dated(Client)
    \/ Call_get_by_id(Client)

SpecRoundTrip == InitRoundTrip /\ [][NextRoundTrip]_vars

\* C27: the entity a create returned and the entity the get-by-id called right
\* after returns agree on every field of the created entity, the id and the
\* creation date included.
C27_RoundTrip ==
    "created" \in DOMAIN frame[Client] =>
        \A f \in DOMAIN frame[Client].created :
            /\ f \in DOMAIN frame[Client].got
            /\ frame[Client].got[f] = frame[Client].created[f]

\* C28: delete_user on a user who is the customer or the specialist of a
\* service request raises, and leaves the user, every order and every order
\* item (the user's own among them) and every service request stored.
C28_DeleteUserRestricted ==
    [][\A u \in DOMAIN User :
          (/\ UserReferenced({u})
           /\ ret'[Client].op = "delete_user"
           /\ delete_user(Client, u)) =>
              /\ ret'[Client] = Outcome("delete_user", "raise", [exc |-> "IntegrityError"])
              /\ User' = User
              /\ Order' = Order
              /\ OrderItem' = OrderItem
              /\ ServiceRequest' = ServiceRequest]_vars

\* delete_user has raised for the customer of the one, unassigned, service
\* request, who owns an order with an item, all still stored.
C28_Witness ==
    /\ ret[Client] = Outcome("delete_user", "raise", [exc |-> "IntegrityError"])
    /\ \E r \in DOMAIN ServiceRequest, o \in DOMAIN Order, i \in DOMAIN OrderItem :
          /\ ServiceRequest[r].customer_id \in DOMAIN User
          /\ ServiceRequest[r].specialist_id = NULL
          /\ Order[o].user_id = ServiceRequest[r].customer_id
          /\ OrderItem[i].order_id = o

\* =========================================================== SpecIntegrity
\* A client calling create_order, step by step, while another client deletes
\* products and users and changes prices between its steps; the store starts
\* with the customers and the products, and with no order or with one order of
\* one item.
InitIntegrity ==
    /\ User = Restrict(SeedUser, list_customers_seed)
    /\ Product = [p \in DOMAIN SeedProductNames |->
                     [name |-> SeedProductNames[p], category |-> "Equipment",
                      price |-> MaxPrice]]
    /\ \/ Order = EmptyTable /\ OrderItem = EmptyTable
       \/ \E owner \in list_customers :
             /\ Order = Insert(EmptyTable, lastrowid(EmptyTable),
                               [total_price |-> MaxPrice, status |-> "Pending",
                                user_id |-> owner])
             /\ OrderItem = Insert(EmptyTable, lastrowid(EmptyTable),
                                   [order_id |-> lastrowid(EmptyTable),
                                    product_id |-> LineProduct(1),
                                    quantity |-> 1, unit_price |-> MaxPrice])
    /\ ServiceRequest = EmptyTable
    /\ InitSessions

\* The item lists used: one or two lines of quantity 1, of products stored
\* when create_order is called.
IntegrityItemInputs ==
    {items \in ItemListInputs :
        /\ Len(items) \in {1, 2}
        /\ \A k \in DOMAIN items :
              items[k].quantity = 1 /\ items[k].product_id \in DOMAIN Product}

\* create_order called while no order other than the initial one is stored.
Call_create_order_next(s) ==
    /\ pc[s] = "idle"
    /\ DOMAIN Order \subseteq {lastrowid(EmptyTable)}
    /\ \E user_id \in list_customers, items \in IntegrityItemInputs :
          create_order_enter(s, [user_id |-> user_id, items |-> items])

\* update_product of the other client: a price set to zero or to the highest.
Other_update_product_price ==
    \E product_id \in DOMAIN Product, price \in {0, MaxPrice} :
        /\ Product' = update_product_db(product_id, [price |-> price])
        /\ UNCHANGED <<User, Order, OrderItem, ServiceRequest, screen, pc, frame, ret>>

NextIntegrity ==
    \/ Call_create_order_next(Client)
    \/ create_order_loop(Client)
    \/ create_order_insert(Client)
    \/ Call_delete_product(Peer)
    \/ Call_delete_user(Peer)
    \/ Other_update_product_price

SpecIntegrity == InitIntegrity /\ [][NextIntegrity]_vars

\* Every order item references a stored order and a stored product, and every
\* order a stored user.
ReferentialIntegrity ==
    /\ \A i \in DOMAIN OrderItem :
          /\ OrderItem[i].order_id \in DOMAIN Order
          /\ OrderItem[i].product_id \in DOMAIN Product
    /\ \A o \in DOMAIN Order : Order[o].user_id \in DOMAIN User

\* C29: referential integrity holds in every state, and a create_order whose
\* INSERTs come after a product it has priced was deleted raises and stores
\* nothing.
C29_ReferentialIntegrity ==
    /\ []ReferentialIntegrity
    /\ [][(/\ create_order_insert(Client)
           /\ \E k \in DOMAIN frame[Client].order_items_data :
                 frame[Client].order_items_data[k].product_id \notin DOMAIN Product) =>
              /\ ret'[Client] = Outcome("create_order", "raise", [exc |-> "IntegrityError"])
              /\ Order' = Order
              /\ OrderItem' = OrderItem]_vars

\* create_order has failed on its INSERTs after the other client deleted a
\* product, while an order with its item, and its owner, are stored.
C29_Witness ==
    /\ ret[Client] = Outcome("create_order", "raise", [exc |-> "IntegrityError"])
    /\ ret[Peer] = Outcome("delete_product", "True", Nothing)
    /\ DOMAIN Product # DOMAIN SeedProductNames
    /\ \E o \in DOMAIN Order, i \in DOMAIN OrderItem :
          /\ OrderItem[i].order_id = o
          /\ Order[o].user_id \in DOMAIN User

\* C30: in every state reached through the screen actions a request that is
\* 'In Progress' has a specialist, and a request without specialist is
\* 'Pending' or 'Cancelled'.
C30_StatusMatchesAssignment ==
    \A r \in DOMAIN ServiceRequest :
        /\ ServiceRequest[r].status = "In Progress" => ServiceRequest[r].specialist_id # NULL
        /\ ServiceRequest[r].specialist_id = NULL =>
              ServiceRequest[r].status \in {"Pending", "Cancelled"}

====
